---- MODULE Spec2Model ----
(***************************************************************************)
(* Onboarding/update pipeline of the facade service and its concurrent     *)
(* datasource-connectivity verification.                                   *)
(*                                                                         *)
(* Spec   : the HTTP handler post_app_onboarding_handler and the detached  *)
(*          background_tasks of a bounded number of requests, interleaved  *)
(*          at their await points, over a shared document store, API       *)
(*          gateway and message bus.                                       *)
(* SpecV  : one direct call of a per-kind verifier                         *)
(*          (FilestoreChecker / DatastoreChecker .connectivity), as the    *)
(*          unit tests of checker.rs call it.                              *)
(***************************************************************************)
EXTENDS Integers, Sequences, FiniteSets, TLC

\* ---------------------------------------------------------------- bounds
MaxRes == 2
MaxCap == 2
MaxResV == 3
MaxCapV == 3

\* the requests in flight at once
Requests == {1, 2}

\* ------------------------------------------------------------ configuration
\* supported_data_source_types.file_store / .data_store of the settings
file_store == {"s3"}
data_store == {"rds_mysql"}

\* kind tags a request may declare: the supported ones and two unsupported ones
AllKinds == {"s3", "rds_mysql", "oracle", "ftp"}

None == [tag |-> "None"]

\* ------------------------------------------------------------ data model
FileStore(i) == [url |-> i]
\* Option<T>: None, or Some(value)
Some(value) == [tag |-> "Some", value |-> value]

\* Table: its name and the optional columns and sample_rows
Table(name, columns, sample_rows) ==
  [name |-> name, columns |-> columns, sample_rows |-> sample_rows]

\* DataStore: host, db_type and tables; the requests of the pipeline leave the
\* optional fields of their one table out
DataStore(i) == [host |-> i, db_type |-> "mysql", tables |-> <<Table("t", None, None)>>]

FileList(n) == [i \in 1..n |-> FileStore(i)]
DbList(n) == [i \in 1..n |-> DataStore(i)]

\* AppDataSource: two maps from kind tag to a list of resources
AppDataSource(fk, dk, n) ==
  [filestore |-> [k \in fk |-> FileList(n)],
   datastore |-> [k \in dk |-> DbList(n)]]

\* topologies drawn for a direct verifier call
TopologiesV ==
  {AppDataSource(fk, dk, n) : fk \in {{}, {"s3"}}, dk \in {{}, {"rds_mysql"}},
                              n \in 1..MaxResV}

\* topologies a request of the pipeline may submit
RequestTopologies ==
  {AppDataSource({"s3"}, {}, 1),
   AppDataSource({"s3"}, {}, MaxRes),
   AppDataSource({"s3"}, {"rds_mysql"}, 1),
   AppDataSource({"oracle"}, {"oracle"}, 1),
   AppDataSource({"oracle", "ftp"}, {"oracle"}, 1),
   AppDataSource({"s3", "oracle"}, {"rds_mysql"}, 1),
   [filestore |-> [k \in {} |-> <<>>],
    datastore |-> [k \in {"rds_mysql"} |-> <<[DataStore(1) EXCEPT !.db_type = "oracle"]>>]]}

\* ------------------------------------------------------------------ state
VARIABLES
  settings,   \* aws_s3.max_concurrent_requests, datastore.max_concurrent_requests
  appColl,    \* application collection: per app_name the list of its documents
  idColl,     \* ID collection: documents keyed by a reference id
  uiColl,     \* UI summary collection: one audit "attempt" record per insert
  apiKeys,    \* API gateway: keys created, each named after its app
  planKeys,   \* API gateway: key ids associated with the usage plan
  kafka,      \* onboarding topic: the notifications handed to the producer
  req,        \* per request: query parameter and body, None before receipt
  pc,         \* per request: position of post_app_onboarding_handler
  bg,         \* per request: position of its background_tasks
  resp,       \* per request: the HTTP response produced, None before
  loc,        \* per request: the handler's local variables
  run,        \* per request: the buffer_unordered stream of the verifier call
  vres,       \* per request: result of the last per-kind verifier call
  hist        \* per request: what the request has done so far (observation)

storeVars == <<appColl, idColl, uiColl, apiKeys, planKeys, kafka>>
vars == <<settings, appColl, idColl, uiColl, apiKeys, planKeys, kafka,
          req, pc, bg, resp, loc, run, vres, hist>>

NoRun == [active |-> FALSE]

NoHist ==
  [probes |-> 0, auth_builds |-> 0, key_creates |-> 0, key_fetches |-> 0,
   plan_calls |-> 0, associates |-> 0, app_writes |-> 0, spawned |-> FALSE,
   failed |-> {}, audit |-> FALSE, diffed |-> None,
   key_lists |-> 0, failed_call |-> None, bg_log |-> <<>>,
   db_clients |-> 0, db_queries |-> 0, replaced |-> None]

NoLoc ==
  [app_exists |-> FALSE, kinds |-> <<>>, connectivity_errors |-> <<>>,
   api_key |-> 0, api_key_id |-> 0, app_id |-> 0, reference_id |-> 0,
   is_associated |-> FALSE, has_datasource_changed |-> FALSE,
   existing_app_datasource |-> None]

\* --------------------------------------------------------- per-kind verifier
Ok(errors) == [ok |-> TRUE, errors |-> errors]
Err(status, cause) == [ok |-> FALSE, status |-> status, cause |-> cause]

\* the db_type values process_database has a branch for
relational_db_types == {"mysql", "postgres"}
search_db_types == {"opensearch"}

\* the error strings of process_database: each names the db_type and host, or the
\* table and the database, it is about
DbError(error, db, table) ==
  [error |-> error, db_type |-> db.db_type, host |-> db.host, table |-> table]

\* for table in &db.tables from the j-th table on: the first table whose query
\* counts 0 or fails ends the probe with its error, the others are not queried
RECURSIVE check_tables(_, _, _, _, _)
check_tables(db, outcomes, j, not_found, queries) ==
  IF j > Len(db.tables)
    THEN [result |-> None, builds |-> 1, queries |-> queries]
  ELSE IF outcomes[j] = "zero"
    THEN [result |-> DbError(not_found, db, db.tables[j].name),
          builds |-> 1, queries |-> queries + 1]
  ELSE IF outcomes[j] = "error"
    THEN [result |-> DbError("failed to check if table exists", db, db.tables[j].name),
          builds |-> 1, queries |-> queries + 1]
  ELSE check_tables(db, outcomes, j + 1, not_found, queries + 1)

\* mutant: a count of 0 is taken for an existing table
process_database_accepts_zero_count(db, client_ok, outcomes) ==
  LET seen == [j \in DOMAIN outcomes |->
                 IF outcomes[j] = "zero" THEN "found" ELSE outcomes[j]]
  IN IF db.db_type \in relational_db_types
       THEN IF client_ok
              THEN check_tables(db, seen, 1, "table does not exist", 0)
              ELSE [result |-> DbError("failed to connect", db, None),
                    builds |-> 1, queries |-> 0]
     ELSE IF db.db_type \in search_db_types
       THEN IF client_ok
              THEN check_tables(db, seen, 1, "index does not exist", 0)
              ELSE [result |-> DbError("failed to connect", db, None),
                    builds |-> 1, queries |-> 0]
     ELSE [result |-> DbError("unsupported database type", db, None),
           builds |-> 0, queries |-> 0]

\* mutant: any db_type without a branch of its own is probed as a relational one
process_database_defaults_to_relational(db, client_ok, outcomes) ==
  IF db.db_type \in search_db_types
    THEN IF client_ok
           THEN check_tables(db, outcomes, 1, "index does not exist", 0)
           ELSE [result |-> DbError("failed to connect", db, None),
                 builds |-> 1, queries |-> 0]
  ELSE IF client_ok
         THEN check_tables(db, outcomes, 1, "table does not exist", 0)
         ELSE [result |-> DbError("failed to connect", db, None),
               builds |-> 1, queries |-> 0]

\* process_database: Some(error string) or None, with the clients it built and
\* the existence queries it sent. client_ok: the builder returned a client;
\* outcomes: per table "found" (count > 0), "zero" or "error"
process_database(db, client_ok, outcomes) ==
  IF db.db_type \in relational_db_types
    THEN IF client_ok
           THEN check_tables(db, outcomes, 1, "table does not exist", 0)
           ELSE [result |-> DbError("failed to connect", db, None),
                 builds |-> 1, queries |-> 0]
  ELSE IF db.db_type \in search_db_types
    THEN IF client_ok
           THEN check_tables(db, outcomes, 1, "index does not exist", 0)
           ELSE [result |-> DbError("failed to connect", db, None),
                 builds |-> 1, queries |-> 0]
  ELSE [result |-> DbError("unsupported database type", db, None),
        builds |-> 0, queries |-> 0]

\* the failure string of one probe; it names the resource it is about. A database
\* probe of the pipeline fails at its client, or at once for an unsupported db_type
ProbeError(family, kind, res) ==
  IF family = "datastore"
    THEN process_database(res, FALSE, <<>>).result
    ELSE [error |-> "probe", family |-> family, kind |-> kind, res |-> res]

\* filestore_get_data: the list declared under the kind, empty if there is none
filestore_get_data(data_source, app_datasource) ==
  IF data_source \in DOMAIN app_datasource.filestore
    THEN app_datasource.filestore[data_source]
    ELSE <<>>

\* the stream futures::stream::iter(...).buffer_unordered(cap) over the resources
NewRun(family, kind, resources, cap, failing, caller) ==
  [active |-> TRUE, family |-> family, kind |-> kind, resources |-> resources,
   cap |-> cap, next |-> 1, inflight |-> {}, failing |-> failing,
   errors |-> <<>>, caller |-> caller]

\* filestore_check_connectivity up to the creation of the stream: it has no error return
filestore_check_connectivity(data_source, app_datasource, cap, failing, caller) ==
  NewRun("filestore", data_source, filestore_get_data(data_source, app_datasource),
         cap, failing, caller)

\* datastore_check_connectivity up to the creation of the stream
datastore_check_connectivity(data_source, app_datasource, auth_ok, cap, failing, caller) ==
  IF data_source \notin DOMAIN app_datasource.datastore
    THEN Err(500, "no_databases")
  ELSE IF ~auth_ok
    THEN Err(500, "aws_auth")
  ELSE NewRun("datastore", data_source, app_datasource.datastore[data_source],
              cap, failing, caller)

\* mutant: the stream is buffered without its limit
CanStart_unbounded(rn) == rn.next <= Len(rn.resources)

\* buffer_unordered pulls the next future only while fewer than cap are in progress
CanStart(rn) ==
  /\ rn.next <= Len(rn.resources)
  /\ Cardinality(rn.inflight) < rn.cap

\* buffer_unordered yields a finished future only after it has filled its queue
CanYield(rn) ==
  /\ rn.inflight # {}
  /\ ~CanStart(rn)

\* the probe of the i-th resource of the stream with its result and its calls: a
\* database in rn.failing has no client built, any other finds all its tables
probe(rn, i) ==
  IF rn.family = "datastore"
    THEN process_database(rn.resources[i], i \notin rn.failing,
                          [j \in DOMAIN rn.resources[i].tables |-> "found"])
    ELSE [result |-> IF i \in rn.failing
                       THEN ProbeError(rn.family, rn.kind, rn.resources[i])
                       ELSE None,
          builds |-> 0, queries |-> 0]

\* process_url / process_database: Some(error string) or None
process(rn, i) == probe(rn, i).result

\* mutant: map in place of filter_map, a None is collected as well
filter_map_keeps_none(result) == <<result>>

\* .filter_map(|result| async move { result }): keeps the Some values
filter_map(result) == IF result = None THEN <<>> ELSE <<result>>

\* mutant: the verifier gives up with an error once a probe has failed
verifier_result_short_circuit(errors) ==
  IF errors = <<>> THEN Ok(errors) ELSE Err(500, "probe failed")

\* the last line of both verifiers: Ok(connectivity_errors), whatever the probes found
verifier_result(errors) == Ok(errors)

\* the stream is exhausted: nothing left to start and nothing in progress
Exhausted(rn) ==
  /\ rn.next > Len(rn.resources)
  /\ rn.inflight = {}

\* ------------------------------------------------------------ handler steps
\* the app names of the application collection, and those the requests name
Apps == {"demo", "other"}
RequestApps == {"demo"}

\* params.is_update is an Option<bool>
IsUpdateParams == {"true", "false", "absent"}

\* params.is_update.unwrap_or(false)
unwrap_or_false(p) == p = "true"

is_update(r) == unwrap_or_false(req[r].is_update)

\* the handler returns Err((status, Json(..))): the response of the request
ErrorResponse(status, message, errors) ==
  [status |-> status, message |-> message, errors |-> errors]

AppCreateResponse(api_key, app_id, reference_id) ==
  [status |-> 201, message |-> "in_progress", api_key |-> api_key,
   app_id |-> app_id, reference_id |-> reference_id]

Fail(r, response) ==
  /\ resp' = [resp EXCEPT ![r] = response]
  /\ pc' = [pc EXCEPT ![r] = "done"]

\* a request arrives: Query(params) and Json(body)
Receive(r) ==
  /\ pc[r] = "idle"
  /\ \E app \in RequestApps, upd \in IsUpdateParams, topo \in RequestTopologies :
       req' = [req EXCEPT ![r] = [app_name |-> app, is_update |-> upd,
                                  app_datasource |-> topo]]
  /\ pc' = [pc EXCEPT ![r] = "check_app_existence"]
  /\ UNCHANGED <<settings, storeVars, bg, resp, loc, run, vres, hist>>

\* get_document_count on the application collection
document_count(app_name) == Len(appColl[app_name])

\* mutant: the gate forgets the onboarding branch
existence_gate_update_only(upd, app_exists) ==
  IF upd /\ ~app_exists THEN [tag |-> "doesn't exist"] ELSE None

\* the existence gate: the message of the 400 response, None if the request passes
existence_gate(upd, app_exists) ==
  IF upd /\ ~app_exists THEN [tag |-> "doesn't exist"]
  ELSE IF ~upd /\ app_exists THEN [tag |-> "already exists"]
  ELSE None

\* check_app_existence(...).await? and the two rejections that follow it
check_app_existence(r) ==
  /\ pc[r] = "check_app_existence"
  /\ \E db_ok \in BOOLEAN :
       IF ~db_ok
         THEN /\ Fail(r, ErrorResponse(500, [tag |-> "existence check failed"], <<>>))
              /\ loc' = loc
         ELSE LET app_exists == document_count(req[r].app_name) > 0
                  gate == existence_gate(is_update(r), app_exists)
              IN /\ loc' = [loc EXCEPT ![r].app_exists = app_exists]
                 /\ IF gate # None
                      THEN Fail(r, ErrorResponse(400, gate, <<>>))
                      ELSE /\ pc' = [pc EXCEPT ![r] = "ui_summary"]
                           /\ resp' = resp
  /\ UNCHANGED <<settings, storeVars, req, bg, run, vres, hist>>

\* the UI summary ("Onboarding" call) document is inserted
insert_ui_summary(r) ==
  /\ pc[r] = "ui_summary"
  /\ \E db_ok \in BOOLEAN :
       IF db_ok
         THEN /\ uiColl' = uiColl \cup {[app_name |-> req[r].app_name, by |-> r]}
              /\ pc' = [pc EXCEPT ![r] = "check_connectivity"]
              /\ resp' = resp
         ELSE /\ Fail(r, ErrorResponse(500, [tag |-> "ui summary insert failed"], <<>>))
              /\ uiColl' = uiColl
  /\ UNCHANGED <<settings, appColl, idColl, apiKeys, planKeys, kafka,
                 req, bg, loc, run, vres, hist>>

\* supported_data_sources: data_store chained with file_store
supported_data_sources == data_store \cup file_store

\* the orders in which a HashMap may hand out its keys
KeyOrders(S) ==
  {q \in [1..Cardinality(S) -> S] : \A k \in S : \E i \in DOMAIN q : q[i] = k}

SelectSeq2(q, supported) ==
  LET Unsupported(k) == k \notin supported IN SelectSeq(q, Unsupported)

\* mutant: the filestore keys are not chained into the validation loop
unsupported_data_sources_datastore_only(fs_keys, ds_keys) ==
  SelectSeq2(ds_keys, supported_data_sources)

\* mutant: the validation loop stops at the first offending key
unsupported_data_sources_first_only(fs_keys, ds_keys) ==
  LET all == SelectSeq2(fs_keys \o ds_keys, supported_data_sources)
  IN IF all = <<>> THEN <<>> ELSE <<Head(all)>>

\* mutant: each family's keys are looked up in that family's list only
unsupported_data_sources_per_family(fs_keys, ds_keys) ==
  SelectSeq2(fs_keys, file_store) \o SelectSeq2(ds_keys, data_store)

\* unsupported_data_sources: every key of filestore, then of datastore, that is
\* not in supported_data_sources
unsupported_data_sources(fs_keys, ds_keys) ==
  SelectSeq2(fs_keys \o ds_keys, supported_data_sources)

Tag(family, q) == [i \in DOMAIN q |-> [family |-> family, key |-> q[i]]]

\* check_datasource_connectivity up to its first checker call
check_datasource_connectivity(r) ==
  /\ pc[r] = "check_connectivity"
  /\ \E fs_keys \in KeyOrders(DOMAIN req[r].app_datasource.filestore),
        ds_keys \in KeyOrders(DOMAIN req[r].app_datasource.datastore) :
       LET unsupported == unsupported_data_sources(fs_keys, ds_keys)
       IN IF unsupported # <<>>
            THEN /\ Fail(r, ErrorResponse(400, [tag |-> "unsupported data sources"],
                                          unsupported))
                 /\ loc' = loc
            ELSE /\ loc' = [loc EXCEPT ![r].kinds =
                              Tag("filestore", fs_keys) \o Tag("datastore", ds_keys),
                                       ![r].connectivity_errors = <<>>]
                 /\ pc' = [pc EXCEPT ![r] = "verify"]
                 /\ resp' = resp
  /\ UNCHANGED <<settings, storeVars, req, bg, run, vres, hist>>

\* mutant: the list of a kind replaces connectivity_errors instead of extending it
ReturnToHandler_overwrites(r, result) ==
  IF result.ok
    THEN /\ loc' = [loc EXCEPT ![r].connectivity_errors = result.errors]
         /\ pc' = [pc EXCEPT ![r] = "verify"]
         /\ resp' = resp
    ELSE /\ Fail(r, ErrorResponse(result.status, [tag |-> result.cause], <<>>))
         /\ loc' = loc

\* mutant: the Err of a checker is returned with the strings collected so far
ReturnToHandler_reports_collected(r, result) ==
  IF result.ok
    THEN /\ loc' = [loc EXCEPT ![r].connectivity_errors = @ \o result.errors]
         /\ pc' = [pc EXCEPT ![r] = "verify"]
         /\ resp' = resp
    ELSE /\ Fail(r, ErrorResponse(result.status, [tag |-> result.cause],
                                  loc[r].connectivity_errors))
         /\ loc' = loc

\* checker.connectivity(..).await? in the handler: an Err is returned at once,
\* an Ok list is appended to connectivity_errors
ReturnToHandler(r, result) ==
  IF result.ok
    THEN /\ loc' = [loc EXCEPT ![r].connectivity_errors = @ \o result.errors]
         /\ pc' = [pc EXCEPT ![r] = "verify"]
         /\ resp' = resp
    ELSE /\ Fail(r, ErrorResponse(result.status, [tag |-> result.cause], <<>>))
         /\ loc' = loc

\* the resources of a stream whose probe reaches a collaborator
Probed(rn) ==
  {i \in DOMAIN rn.resources :
     rn.family = "datastore" =>
       rn.resources[i].db_type \in relational_db_types \cup search_db_types}

\* the next key of the two loops is handed to its checker
checker_connectivity(r) ==
  /\ pc[r] = "verify"
  /\ loc[r].kinds # <<>>
  /\ LET k == Head(loc[r].kinds)
         topo == req[r].app_datasource
     IN \E auth_ok \in BOOLEAN,
           failing \in SUBSET (1..MaxRes) :
          LET out == IF k.family = "filestore"
                       THEN filestore_check_connectivity(k.key, topo,
                              settings.aws_s3_max_concurrent_requests, failing, "handler")
                       ELSE datastore_check_connectivity(k.key, topo, auth_ok,
                              settings.datastore_max_concurrent_requests, failing, "handler")
          IN /\ (k.family = "filestore" => auth_ok)
             /\ hist' = [hist EXCEPT ![r].auth_builds =
                           IF k.family = "datastore" THEN @ + 1 ELSE @]
             /\ IF "active" \in DOMAIN out
                  THEN /\ failing \subseteq Probed(out)
                       /\ run' = [run EXCEPT ![r] = out]
                       /\ pc' = [pc EXCEPT ![r] = "probing"]
                       /\ loc' = [loc EXCEPT ![r].kinds = Tail(@)]
                       /\ UNCHANGED <<resp, vres>>
                  ELSE /\ failing = {}
                       /\ ReturnToHandler(r, out)
                       /\ UNCHANGED <<run, vres>>
  /\ UNCHANGED <<settings, storeVars, req, bg>>

\* both loops are over: reject with every collected error, or go on
connectivity_verdict(r) ==
  /\ pc[r] = "verify"
  /\ loc[r].kinds = <<>>
  /\ IF loc[r].connectivity_errors # <<>>
       THEN Fail(r, ErrorResponse(400, [tag |-> "connectivity check failed"],
                                  loc[r].connectivity_errors))
       ELSE /\ pc' = [pc EXCEPT ![r] = "credentials"]
            /\ resp' = resp
  /\ UNCHANGED <<settings, storeVars, req, bg, loc, run, vres, hist>>

\* ------------------------------------------------------- credential steps
\* the name of the key: product-environment-app_name
api_key_name(app_name) == [product |-> "product", env |-> "env", app_name |-> app_name]

\* mutant: a key without a value or an id is taken as created
create_api_key_accepts_missing_value(r) ==
  /\ pc[r] = "credentials"
  /\ ~is_update(r)
  /\ \E outcome \in {"created", "no_value", "error"} :
       /\ hist' = [hist EXCEPT ![r].key_creates = @ + 1,
                               ![r].failed_call = IF outcome = "created" THEN @
                                                  ELSE [tag |-> "create_api_key"]]
       /\ apiKeys' = IF outcome = "error" THEN apiKeys
                     ELSE apiKeys \cup {[name |-> api_key_name(req[r].app_name), id |-> r]}
       /\ IF outcome # "error"
            THEN /\ loc' = [loc EXCEPT ![r].api_key = r, ![r].api_key_id = r,
                                       ![r].app_id = r, ![r].reference_id = r]
                 /\ pc' = [pc EXCEPT ![r] = "usage_plan"]
                 /\ resp' = resp
            ELSE /\ Fail(r, ErrorResponse(500, [tag |-> "api key creation failed"], <<>>))
                 /\ loc' = loc
  /\ UNCHANGED <<settings, appColl, idColl, uiColl, planKeys, kafka, req, bg, run, vres>>

\* create_api_key: one create_api_key call on the gateway, then Uuid::new_v4 for
\* the app id. The gateway may answer without a value or an id.
create_api_key(r) ==
  /\ pc[r] = "credentials"
  /\ ~is_update(r)
  /\ \E outcome \in {"created", "no_value", "error"} :
       /\ hist' = [hist EXCEPT ![r].key_creates = @ + 1,
                               ![r].failed_call = IF outcome = "created" THEN @
                                                  ELSE [tag |-> "create_api_key"]]
       /\ apiKeys' = IF outcome = "error" THEN apiKeys
                     ELSE apiKeys \cup {[name |-> api_key_name(req[r].app_name), id |-> r]}
       /\ IF outcome = "created"
            THEN /\ loc' = [loc EXCEPT ![r].api_key = r, ![r].api_key_id = r,
                                       ![r].app_id = r, ![r].reference_id = r]
                 /\ pc' = [pc EXCEPT ![r] = "usage_plan"]
                 /\ resp' = resp
            ELSE /\ Fail(r, ErrorResponse(500, [tag |-> "api key creation failed"], <<>>))
                 /\ loc' = loc
  /\ UNCHANGED <<settings, appColl, idColl, uiColl, planKeys, kafka, req, bg, run, vres>>

\* get_document: the first document of the collection with the app_name, if any
get_document(app_name) ==
  IF appColl[app_name] = <<>> THEN None ELSE Head(appColl[app_name])

\* mutant: a missing document is reported as an internal error
fetch_api_key_missing_is_internal(r) ==
  /\ pc[r] = "credentials"
  /\ is_update(r)
  /\ \E db_ok \in BOOLEAN :
       LET stored == get_document(req[r].app_name)
       IN /\ hist' = [hist EXCEPT ![r].key_fetches = @ + 1,
                                  ![r].failed_call = IF db_ok /\ stored # None THEN @
                                                     ELSE [tag |-> "fetch_api_key"]]
          /\ IF ~db_ok
               THEN /\ Fail(r, ErrorResponse(500, [tag |-> "fetch failed"], <<>>))
                    /\ loc' = loc
             ELSE IF stored = None
               THEN /\ Fail(r, ErrorResponse(500, [tag |-> "no document found"], <<>>))
                    /\ loc' = loc
             ELSE /\ loc' = [loc EXCEPT ![r].api_key = stored.api_key,
                                        ![r].api_key_id = stored.api_key_id,
                                        ![r].app_id = stored.app_id,
                                        ![r].reference_id = r]
                  /\ pc' = [pc EXCEPT ![r] = "usage_plan"]
                  /\ resp' = resp
  /\ UNCHANGED <<settings, storeVars, req, bg, run, vres>>

\* mutant: an update creates a key of its own and answers with it
fetch_api_key_creates_key(r) ==
  /\ pc[r] = "credentials"
  /\ is_update(r)
  /\ get_document(req[r].app_name) # None
  /\ hist' = [hist EXCEPT ![r].key_creates = @ + 1]
  /\ apiKeys' = apiKeys \cup {[name |-> api_key_name(req[r].app_name), id |-> r]}
  /\ loc' = [loc EXCEPT ![r].api_key = r, ![r].api_key_id = r,
                        ![r].app_id = r, ![r].reference_id = r]
  /\ pc' = [pc EXCEPT ![r] = "usage_plan"]
  /\ UNCHANGED <<settings, appColl, idColl, uiColl, planKeys, kafka, req, bg, resp, run, vres>>

\* fetch_api_key: api_key, api_key_id and app_id of the stored document
fetch_api_key(r) ==
  /\ pc[r] = "credentials"
  /\ is_update(r)
  /\ \E db_ok \in BOOLEAN :
       LET stored == get_document(req[r].app_name)
       IN /\ hist' = [hist EXCEPT ![r].key_fetches = @ + 1,
                                  ![r].failed_call = IF db_ok /\ stored # None THEN @
                                                     ELSE [tag |-> "fetch_api_key"]]
          /\ IF ~db_ok
               THEN /\ Fail(r, ErrorResponse(500, [tag |-> "fetch failed"], <<>>))
                    /\ loc' = loc
             ELSE IF stored = None
               THEN /\ Fail(r, ErrorResponse(404, [tag |-> "no document found"], <<>>))
                    /\ loc' = loc
             ELSE /\ loc' = [loc EXCEPT ![r].api_key = stored.api_key,
                                        ![r].api_key_id = stored.api_key_id,
                                        ![r].app_id = stored.app_id,
                                        ![r].reference_id = r]
                  /\ pc' = [pc EXCEPT ![r] = "usage_plan"]
                  /\ resp' = resp
  /\ UNCHANGED <<settings, storeVars, req, bg, run, vres>>

\* create_ref_id(): a reference id of its own, not the handler's reference_id
create_ref_id(r) == Cardinality(Requests) + r

IdDocument(app_name, reference_id, task_id) ==
  [app_name |-> app_name, reference_id |-> reference_id, task_id |-> task_id]

\* mutant: a failed lookup is taken for an existing plan
check_usage_plan_exists_ignores_failure(r) ==
  /\ pc[r] = "usage_plan"
  /\ \E plan_ok \in BOOLEAN :
       /\ hist' = [hist EXCEPT ![r].plan_calls = @ + 1,
                               ![r].failed_call = IF plan_ok THEN @
                                                  ELSE [tag |-> "check_usage_plan_exists"]]
       /\ pc' = [pc EXCEPT ![r] = "usage_plan_keys"]
       /\ UNCHANGED <<resp, idColl>>
  /\ UNCHANGED <<settings, appColl, uiColl, apiKeys, planKeys, kafka, req, bg, loc, run, vres>>

\* check_usage_plan_exists; on an error a task/reference record is written to the
\* ID collection (its own result is dropped) and the error returned
check_usage_plan_exists(r) ==
  /\ pc[r] = "usage_plan"
  /\ \E plan_ok \in BOOLEAN, ref_ok \in BOOLEAN :
       /\ hist' = [hist EXCEPT ![r].plan_calls = @ + 1,
                               ![r].failed_call = IF plan_ok THEN @
                                                  ELSE [tag |-> "check_usage_plan_exists"]]
       /\ IF plan_ok
         THEN /\ ref_ok
              /\ pc' = [pc EXCEPT ![r] = "usage_plan_keys"]
              /\ UNCHANGED <<resp, idColl>>
         ELSE /\ idColl' = IF ref_ok
                             THEN idColl \cup {IdDocument(req[r].app_name, create_ref_id(r), r)}
                             ELSE idColl
              /\ Fail(r, ErrorResponse(500, [tag |-> "usage plan lookup failed"], <<>>))
  /\ UNCHANGED <<settings, appColl, uiColl, apiKeys, planKeys, kafka, req, bg, loc, run, vres>>

\* get_usage_plan_keys().usage_plan_id(..).position(..).send(): the page the
\* position names (the first one without a position) and, unless it is the last
\* page, the position of the next one
get_usage_plan_keys(pages, position) ==
  LET page == IF position = None THEN 1 ELSE position.value
  IN [items |-> pages[page],
      position |-> IF page < Len(pages) THEN Some(page + 1) ELSE None]

\* mutant: the loop ends only at a page without a position
loop_returns_at_last_page_only(is_associated, response) ==
  response.position = None

\* if is_associated || response.position.is_none() { return Ok(is_associated) }
loop_returns(is_associated, response) ==
  is_associated \/ response.position = None

\* the loop of check_usage_plan_with_api_key from one position on: a failed list
\* call is a 500, a page with the key or without a position ends the loop, any
\* other page hands its position to the next round. calls counts the list calls.
RECURSIVE usage_plan_keys_loop(_, _, _, _, _)
usage_plan_keys_loop(pages, api_key_id, position, failing, calls) ==
  LET page == IF position = None THEN 1 ELSE position.value
  IN IF page \in failing
       THEN [ok |-> FALSE, value |-> FALSE, status |-> 500, calls |-> calls + 1]
       ELSE LET response == get_usage_plan_keys(pages, position)
                is_associated == api_key_id \in response.items
            IN IF loop_returns(is_associated, response)
                 THEN [ok |-> TRUE, value |-> is_associated, status |-> 200,
                       calls |-> calls + 1]
                 ELSE usage_plan_keys_loop(pages, api_key_id, response.position,
                                           failing, calls + 1)

\* mutant: the key is associated whatever the listing said
check_usage_plan_with_api_key_always_associates(r) ==
  /\ pc[r] = "usage_plan_keys"
  /\ \E list_ok \in BOOLEAN :
       LET out == usage_plan_keys_loop(<<planKeys>>, loc[r].api_key_id, None,
                                       IF list_ok THEN {} ELSE {1}, 0)
       IN /\ hist' = [hist EXCEPT ![r].key_lists = @ + out.calls,
                                  ![r].failed_call = IF out.ok THEN @
                                                     ELSE [tag |-> "check_usage_plan_with_api_key"]]
          /\ IF ~out.ok
               THEN /\ Fail(r, ErrorResponse(out.status, [tag |-> "usage plan keys failed"], <<>>))
                    /\ loc' = loc
               ELSE /\ loc' = [loc EXCEPT ![r].is_associated = out.value]
                    /\ pc' = [pc EXCEPT ![r] = "associate"]
                    /\ resp' = resp
  /\ UNCHANGED <<settings, storeVars, req, bg, run, vres>>

\* check_usage_plan_with_api_key in the handler: is the key id among the plan's
\* keys. The plan's keys of the pipeline fit one page.
check_usage_plan_with_api_key(r) ==
  /\ pc[r] = "usage_plan_keys"
  /\ \E list_ok \in BOOLEAN :
       LET out == usage_plan_keys_loop(<<planKeys>>, loc[r].api_key_id, None,
                                       IF list_ok THEN {} ELSE {1}, 0)
       IN /\ hist' = [hist EXCEPT ![r].key_lists = @ + out.calls,
                                  ![r].failed_call = IF out.ok THEN @
                                                     ELSE [tag |-> "check_usage_plan_with_api_key"]]
          /\ IF ~out.ok
               THEN /\ Fail(r, ErrorResponse(out.status, [tag |-> "usage plan keys failed"], <<>>))
                    /\ loc' = loc
               ELSE /\ loc' = [loc EXCEPT ![r].is_associated = out.value]
                    /\ pc' = [pc EXCEPT ![r] = IF out.value THEN "spawn" ELSE "associate"]
                    /\ resp' = resp
  /\ UNCHANGED <<settings, storeVars, req, bg, run, vres>>

\* mutant: the result of the association is dropped and the handler goes on
associate_api_key_with_usage_plan_unchecked(r) ==
  /\ pc[r] = "associate"
  /\ hist' = [hist EXCEPT ![r].associates = @ + 1]
  /\ \E gw_ok \in BOOLEAN :
       /\ planKeys' = IF gw_ok THEN planKeys \cup {loc[r].api_key_id} ELSE planKeys
       /\ pc' = [pc EXCEPT ![r] = "spawn"]
       /\ resp' = resp
  /\ UNCHANGED <<settings, appColl, idColl, uiColl, apiKeys, kafka, req, bg, loc, run, vres>>

\* associate_api_key_with_usage_plan: create_usage_plan_key; the gateway refuses a
\* key that is already in the plan
associate_api_key_with_usage_plan(r) ==
  /\ pc[r] = "associate"
  /\ \E gw_ok \in BOOLEAN :
       LET created == gw_ok /\ loc[r].api_key_id \notin planKeys
       IN /\ hist' = [hist EXCEPT ![r].associates = @ + 1,
                                  ![r].failed_call =
                                     IF created THEN @
                                     ELSE [tag |-> "associate_api_key_with_usage_plan"]]
          /\ IF created
               THEN /\ planKeys' = planKeys \cup {loc[r].api_key_id}
                    /\ pc' = [pc EXCEPT ![r] = "spawn"]
                    /\ resp' = resp
               ELSE /\ Fail(r, ErrorResponse(500,
                              [tag |-> "associate failed",
                               cause |-> IF gw_ok THEN "conflict" ELSE "gateway"], <<>>))
                    /\ planKeys' = planKeys
  /\ UNCHANGED <<settings, appColl, idColl, uiColl, apiKeys, kafka, req, bg, loc, run, vres>>

\* tokio::spawn(background_tasks(..)): the task runs from now on, on its own
spawn_background_tasks(r) ==
  /\ pc[r] = "spawn"
  /\ bg' = [bg EXCEPT ![r] = "id_document"]
  /\ pc' = [pc EXCEPT ![r] = "respond"]
  /\ hist' = [hist EXCEPT ![r].spawned = TRUE]
  /\ UNCHANGED <<settings, storeVars, req, resp, loc, run, vres>>

\* Ok((StatusCode::CREATED, Json(AppCreateResponse {..}))) reaches the client
respond_created(r) ==
  /\ pc[r] = "respond"
  /\ resp' = [resp EXCEPT ![r] =
                AppCreateResponse(loc[r].api_key, loc[r].app_id, loc[r].reference_id)]
  /\ pc' = [pc EXCEPT ![r] = "done"]
  /\ UNCHANGED <<settings, storeVars, req, bg, loc, run, vres, hist>>

\* ------------------------------------------------------- background steps
\* table.columns.clone().unwrap_or_default()
unwrap_or_default(columns) == IF columns = None THEN <<>> ELSE columns.value

\* AppDocumentBuilder::set_app_datasource: the topology is copied field by field
\* into the document's own types; columns become Some(columns.unwrap_or_default())
set_app_datasource(app_datasource) ==
  [filestore |-> app_datasource.filestore,
   datastore |->
     [k \in DOMAIN app_datasource.datastore |->
        [i \in DOMAIN app_datasource.datastore[k] |->
           [app_datasource.datastore[k][i] EXCEPT !.tables =
              [j \in DOMAIN @ |->
                 [@[j] EXCEPT !.columns = Some(unwrap_or_default(@))]]]]]]

\* mutant: the status is left in_progress by every write
onboarding_status_always_in_progress(has_datasource_changed) ==
  "in_progress"

onboarding_status(has_datasource_changed) ==
  IF has_datasource_changed THEN "in_progress" ELSE "complete"

\* generate_app_document: the body, the credentials and the status
generate_app_document(body, app_id, api_key, api_key_id, has_datasource_changed) ==
  [app_name |-> body.app_name,
   app_datasource |-> set_app_datasource(body.app_datasource),
   app_id |-> app_id, api_key |-> api_key, api_key_id |-> api_key_id,
   onboarding_status |-> onboarding_status(has_datasource_changed)]

\* one step of background_tasks and what it returned: "none", or the error that
\* the step logged (error!) and returned
LogStep(r, step, error) ==
  Append(hist[r].bg_log, [step |-> step, error |-> error])

\* mutant: a failed insert of the ID document does not end the task
bg_id_document_ignores_failure(r) ==
  /\ bg[r] = "id_document"
  /\ \E db_ok \in BOOLEAN :
       /\ idColl' = IF db_ok
                      THEN idColl \cup {[app_name |-> req[r].app_name,
                                         reference_id |-> loc[r].reference_id,
                                         task_id |-> r]}
                      ELSE idColl
       /\ hist' = [hist EXCEPT ![r].bg_log =
                     LogStep(r, "id_document", IF db_ok THEN "none" ELSE "insert failed")]
       /\ bg' = [bg EXCEPT ![r] = IF is_update(r) THEN "diff" ELSE "create_app"]
  /\ UNCHANGED <<settings, appColl, uiColl, apiKeys, planKeys, kafka,
                 req, pc, resp, loc, run, vres>>

\* the ID document of the request is inserted
bg_id_document(r) ==
  /\ bg[r] = "id_document"
  /\ \E db_ok \in BOOLEAN :
       /\ hist' = [hist EXCEPT ![r].bg_log =
                     LogStep(r, "id_document", IF db_ok THEN "none" ELSE "insert failed")]
       /\ IF db_ok
            THEN /\ idColl' = idColl \cup
                     {IdDocument(req[r].app_name, loc[r].reference_id, r)}
                 /\ bg' = [bg EXCEPT ![r] = IF is_update(r) THEN "diff" ELSE "create_app"]
            ELSE /\ bg' = [bg EXCEPT ![r] = "stopped"]
                 /\ idColl' = idColl
  /\ UNCHANGED <<settings, appColl, uiColl, apiKeys, planKeys, kafka,
                 req, pc, resp, loc, run, vres>>

\* mutant: the result of the Application document insert is not looked at
bg_create_app_unchecked(r) ==
  /\ bg[r] = "create_app"
  /\ \E db_ok \in BOOLEAN :
       /\ appColl' = IF db_ok
                       THEN [appColl EXCEPT ![req[r].app_name] =
                               Append(@, generate_app_document(req[r], loc[r].app_id,
                                           loc[r].api_key, loc[r].api_key_id, TRUE))]
                       ELSE appColl
       /\ hist' = [hist EXCEPT ![r].app_writes = IF db_ok THEN @ + 1 ELSE @,
                               ![r].bg_log = LogStep(r, "create_app",
                                   IF db_ok THEN "none" ELSE "insert failed")]
       /\ bg' = [bg EXCEPT ![r] = "notify"]
  /\ UNCHANGED <<settings, idColl, uiColl, apiKeys, planKeys, kafka,
                 req, pc, resp, loc, run, vres>>

\* CASE 1, step 1: the Application document is created
bg_create_app(r) ==
  /\ bg[r] = "create_app"
  /\ \E db_ok \in BOOLEAN :
       IF db_ok
         THEN /\ appColl' = [appColl EXCEPT ![req[r].app_name] =
                  Append(@, generate_app_document(req[r], loc[r].app_id, loc[r].api_key,
                                                  loc[r].api_key_id, TRUE))]
              /\ hist' = [hist EXCEPT ![r].app_writes = @ + 1,
                                      ![r].bg_log = LogStep(r, "create_app", "none")]
              /\ bg' = [bg EXCEPT ![r] = "notify"]
         ELSE /\ bg' = [bg EXCEPT ![r] = "stopped"]
              /\ hist' = [hist EXCEPT ![r].bg_log =
                            LogStep(r, "create_app", "insert failed")]
              /\ appColl' = appColl
  /\ UNCHANGED <<settings, idColl, uiColl, apiKeys, planKeys, kafka,
                 req, pc, resp, loc, run, vres>>

\* #[derive(PartialEq)] of the topology types: Vec<T> compares length and the
\* elements in order, HashMap the key sets and the values, a struct its fields
FileStoreEq(a, b) == a.url = b.url

FileStoreVecEq(a, b) ==
  /\ Len(a) = Len(b)
  /\ \A i \in DOMAIN a : FileStoreEq(a[i], b[i])

\* mutant: a PartialEq of Table that leaves sample_rows out
TableEq_without_sample_rows(a, b) ==
  /\ a.name = b.name
  /\ a.columns = b.columns

TableEq(a, b) ==
  /\ a.name = b.name
  /\ a.columns = b.columns
  /\ a.sample_rows = b.sample_rows

TableVecEq(a, b) ==
  /\ Len(a) = Len(b)
  /\ \A i \in DOMAIN a : TableEq(a[i], b[i])

DataStoreEq(a, b) ==
  /\ a.host = b.host
  /\ a.db_type = b.db_type
  /\ TableVecEq(a.tables, b.tables)

DataStoreVecEq(a, b) ==
  /\ Len(a) = Len(b)
  /\ \A i \in DOMAIN a : DataStoreEq(a[i], b[i])

AppDataSourceEq(a, b) ==
  /\ DOMAIN a.filestore = DOMAIN b.filestore
  /\ \A k \in DOMAIN a.filestore : FileStoreVecEq(a.filestore[k], b.filestore[k])
  /\ DOMAIN a.datastore = DOMAIN b.datastore
  /\ \A k \in DOMAIN a.datastore : DataStoreVecEq(a.datastore[k], b.datastore[k])

\* check_datasource_change: (changed, previous) from the stored document
datasource_change(stored, new_app_datasource) ==
  IF AppDataSourceEq(stored.app_datasource, new_app_datasource)
    THEN [changed |-> FALSE, previous |-> None]
    ELSE [changed |-> TRUE, previous |-> stored.app_datasource]

\* mutant: a missing document is taken for an unchanged topology
bg_check_datasource_change_missing_is_unchanged(r) ==
  /\ bg[r] = "diff"
  /\ \E db_ok \in BOOLEAN :
       LET stored == get_document(req[r].app_name)
       IN IF ~db_ok
            THEN /\ bg' = [bg EXCEPT ![r] = "stopped"]
                 /\ hist' = [hist EXCEPT ![r].bg_log = LogStep(r, "diff", "fetch failed")]
                 /\ loc' = loc
          ELSE IF stored = None
            THEN /\ bg' = [bg EXCEPT ![r] = "update_app"]
                 /\ hist' = [hist EXCEPT ![r].bg_log = LogStep(r, "diff", "none")]
                 /\ loc' = [loc EXCEPT ![r].has_datasource_changed = FALSE,
                                       ![r].existing_app_datasource = None]
          ELSE LET d == datasource_change(stored, req[r].app_datasource)
               IN /\ loc' = [loc EXCEPT ![r].has_datasource_changed = d.changed,
                                        ![r].existing_app_datasource = d.previous]
                  /\ hist' = [hist EXCEPT ![r].diffed = stored.app_datasource,
                                          ![r].bg_log = LogStep(r, "diff", "none")]
                  /\ bg' = [bg EXCEPT ![r] = "update_app"]
  /\ UNCHANGED <<settings, storeVars, req, pc, resp, run, vres>>

\* CASE 2, step 1: the diff against the stored topology; no document is NotFound
\* (404), a failed read is 500, and background_tasks returns on either
bg_check_datasource_change(r) ==
  /\ bg[r] = "diff"
  /\ \E db_ok \in BOOLEAN :
       LET stored == get_document(req[r].app_name)
       IN IF ~db_ok
            THEN /\ bg' = [bg EXCEPT ![r] = "stopped"]
                 /\ hist' = [hist EXCEPT ![r].bg_log = LogStep(r, "diff", "fetch failed")]
                 /\ loc' = loc
          ELSE IF stored = None
            THEN /\ bg' = [bg EXCEPT ![r] = "stopped"]
                 /\ hist' = [hist EXCEPT ![r].bg_log =
                               LogStep(r, "diff", "no document found")]
                 /\ loc' = loc
          ELSE LET d == datasource_change(stored, req[r].app_datasource)
               IN /\ loc' = [loc EXCEPT ![r].has_datasource_changed = d.changed,
                                        ![r].existing_app_datasource = d.previous]
                  /\ hist' = [hist EXCEPT ![r].diffed = stored.app_datasource,
                                          ![r].bg_log = LogStep(r, "diff", "none")]
                  /\ bg' = [bg EXCEPT ![r] = "update_app"]
  /\ UNCHANGED <<settings, storeVars, req, pc, resp, run, vres>>

\* mutant: an update notifies whether or not the diff reported a change
after_update_always_notifies(has_datasource_changed, existing_app_datasource) ==
  "notify"

\* what follows the Application document write of an update: the notification if
\* the diff reported a change with a previous topology, else the success records
after_update(has_datasource_changed, existing_app_datasource) ==
  IF has_datasource_changed /\ existing_app_datasource # None
    THEN "notify" ELSE "done"

\* CASE 2, step 2: update_app; a modifiedCount of 0 is reported as NotFound
bg_update_app(r) ==
  /\ bg[r] = "update_app"
  /\ \E db_ok \in BOOLEAN, timestamp_differs \in BOOLEAN :
       LET app == req[r].app_name
           updated == generate_app_document(req[r], loc[r].app_id, loc[r].api_key,
                        loc[r].api_key_id, loc[r].has_datasource_changed)
           modifiedCount == IF appColl[app] = <<>> THEN 0
                            ELSE IF Head(appColl[app]) = updated /\ ~timestamp_differs
                              THEN 0 ELSE 1
           next == after_update(loc[r].has_datasource_changed,
                                loc[r].existing_app_datasource)
       IN /\ (timestamp_differs =>
                db_ok /\ appColl[app] # <<>> /\ Head(appColl[app]) = updated)
          /\ IF db_ok /\ modifiedCount > 0
               THEN /\ appColl' = [appColl EXCEPT ![app] = <<updated>> \o Tail(@)]
                    /\ hist' = [hist EXCEPT ![r].app_writes = @ + 1,
                                            ![r].audit = (next = "done"),
                                            ![r].replaced = Head(appColl[app]).app_datasource,
                                            ![r].bg_log = LogStep(r, "update_app", "none")]
                    /\ bg' = [bg EXCEPT ![r] = next]
               ELSE /\ bg' = [bg EXCEPT ![r] = "stopped"]
                    /\ hist' = [hist EXCEPT ![r].bg_log = LogStep(r, "update_app",
                                  IF db_ok THEN "no document modified" ELSE "update failed")]
                    /\ appColl' = appColl
  /\ UNCHANGED <<settings, idColl, uiColl, apiKeys, planKeys, kafka,
                 req, pc, resp, loc, run, vres>>

\* the message of app_onboard_or_update_notify_kafka
kafka_message(task_id, app_name, new_app_datasource, existing_app_datasource) ==
  [task_id |-> task_id, key |-> app_name, new |-> new_app_datasource,
   previous |-> existing_app_datasource]

\* mutant: the success records are written although the producer failed
bg_notify_kafka_audits_failure(r) ==
  /\ bg[r] = "notify"
  /\ \E kafka_ok \in BOOLEAN :
       /\ kafka' = IF kafka_ok
                     THEN Append(kafka,
                            kafka_message(r, req[r].app_name, req[r].app_datasource,
                                          IF is_update(r) THEN loc[r].existing_app_datasource
                                                          ELSE None))
                     ELSE kafka
       /\ hist' = [hist EXCEPT ![r].audit = TRUE,
                               ![r].bg_log = LogStep(r, "notify",
                                   IF kafka_ok THEN "none" ELSE "send failed")]
       /\ bg' = [bg EXCEPT ![r] = "done"]
  /\ UNCHANGED <<settings, appColl, idColl, uiColl, apiKeys, planKeys,
                 req, pc, resp, loc, run, vres>>

\* the notification is produced; the success audit and metric records follow it
bg_notify_kafka(r) ==
  /\ bg[r] = "notify"
  /\ \E kafka_ok \in BOOLEAN :
       IF kafka_ok
         THEN /\ kafka' = Append(kafka,
                  kafka_message(r, req[r].app_name, req[r].app_datasource,
                                IF is_update(r) THEN loc[r].existing_app_datasource
                                                ELSE None))
              /\ hist' = [hist EXCEPT ![r].audit = TRUE,
                                      ![r].bg_log = LogStep(r, "notify", "none")]
              /\ bg' = [bg EXCEPT ![r] = "done"]
         ELSE /\ bg' = [bg EXCEPT ![r] = "stopped"]
              /\ hist' = [hist EXCEPT ![r].bg_log = LogStep(r, "notify", "send failed")]
              /\ kafka' = kafka
  /\ UNCHANGED <<settings, appColl, idColl, uiColl, apiKeys, planKeys,
                 req, pc, resp, loc, run, vres>>

\* ------------------------------------------------------------ verifier steps
\* buffer_unordered starts the next probe of the list
StartProbe(r) ==
  /\ pc[r] = "probing"
  /\ CanStart(run[r])
  /\ run' = [run EXCEPT ![r].next = @ + 1, ![r].inflight = @ \cup {run[r].next}]
  /\ hist' = [hist EXCEPT ![r].probes = @ + 1]
  /\ UNCHANGED <<settings, storeVars, req, pc, bg, resp, loc, vres>>

\* one probe in progress finishes, in any order; its result passes filter_map
YieldProbe(r) ==
  /\ pc[r] = "probing"
  /\ CanYield(run[r])
  /\ \E i \in run[r].inflight :
       /\ run' = [run EXCEPT ![r].inflight = @ \ {i},
                             ![r].errors = @ \o filter_map(process(run[r], i))]
       /\ hist' = [hist EXCEPT ![r].failed =
                     IF process(run[r], i) = None THEN @ ELSE @ \cup {process(run[r], i)},
                               ![r].db_clients = @ + probe(run[r], i).builds,
                               ![r].db_queries = @ + probe(run[r], i).queries]
  /\ UNCHANGED <<settings, storeVars, req, pc, bg, resp, loc, vres>>

\* .collect().await ends; the verifier returns Ok(connectivity_errors)
VerifierReturn(r) ==
  /\ pc[r] = "probing"
  /\ Exhausted(run[r])
  /\ run' = [run EXCEPT ![r] = NoRun]
  /\ IF run[r].caller = "handler"
       THEN /\ ReturnToHandler(r, verifier_result(run[r].errors))
            /\ vres' = vres
       ELSE /\ vres' = [vres EXCEPT ![r] = verifier_result(run[r].errors)]
            /\ pc' = [pc EXCEPT ![r] = "returned"]
            /\ UNCHANGED <<loc, resp>>
  /\ UNCHANGED <<settings, storeVars, req, bg, hist>>

\* a direct call of FilestoreChecker.connectivity or DatastoreChecker.connectivity
\* with any key, declared in the topology or not
DirectCall(r) ==
  /\ pc[r] = "direct"
  /\ \E family \in {"filestore", "datastore"}, key \in AllKinds,
        topo \in TopologiesV, auth_ok \in BOOLEAN, failing \in SUBSET (1..MaxResV) :
       LET cap == IF family = "filestore"
                    THEN settings.aws_s3_max_concurrent_requests
                    ELSE settings.datastore_max_concurrent_requests
           out == IF family = "filestore"
                    THEN filestore_check_connectivity(key, topo, cap, failing, "test")
                    ELSE datastore_check_connectivity(key, topo, auth_ok, cap, failing, "test")
       IN /\ (family = "filestore" => auth_ok)
          /\ req' = [req EXCEPT ![r] = [family |-> family, key |-> key,
                                       app_datasource |-> topo, auth_ok |-> auth_ok,
                                       failing |-> failing]]
          /\ hist' = [hist EXCEPT ![r].auth_builds =
                        IF family = "datastore" /\ key \in DOMAIN topo.datastore
                          THEN @ + 1 ELSE @]
          /\ IF "active" \in DOMAIN out
               THEN /\ failing \subseteq 1..Len(out.resources)
                    /\ run' = [run EXCEPT ![r] = out]
                    /\ pc' = [pc EXCEPT ![r] = "probing"]
                    /\ vres' = vres
               ELSE /\ failing = {}
                    /\ vres' = [vres EXCEPT ![r] = out]
                    /\ pc' = [pc EXCEPT ![r] = "returned"]
                    /\ run' = run
  /\ UNCHANGED <<settings, storeVars, bg, resp, loc>>

\* -------------------------------------------------------------- the pipeline
\* key id and app id of an application onboarded before the run
StoredId(app_name) == IF app_name = "demo" THEN 0 ELSE 0 - 1

\* the application collection before the run: an app is absent, or was onboarded
\* with an accepted topology (an unchanged update has set it complete since)
StoredDocs(app_name) ==
  {<<>>} \cup
  {<<generate_app_document([app_name |-> app_name,
                            app_datasource |-> AppDataSource({"s3"}, {}, 1)],
                           StoredId(app_name), StoredId(app_name),
                           StoredId(app_name), changed)>> :
     changed \in IF app_name \in RequestApps THEN BOOLEAN ELSE {TRUE}}

Init ==
  /\ settings = [aws_s3_max_concurrent_requests |-> 1,
                 datastore_max_concurrent_requests |-> MaxCap]
  /\ appColl \in {c \in [Apps -> UNION {StoredDocs(a) : a \in Apps}] :
                    \A a \in Apps : c[a] \in StoredDocs(a)}
  /\ idColl = {}
  /\ uiColl = {}
  /\ apiKeys = {[name |-> api_key_name(a), id |-> StoredId(a)] : a \in {b \in Apps : appColl[b] # <<>>}}
  /\ planKeys = {StoredId(a) : a \in {b \in Apps : appColl[b] # <<>>}}
  /\ kafka = <<>>
  /\ req = [r \in Requests |-> None]
  /\ pc = [r \in Requests |-> "idle"]
  /\ bg = [r \in Requests |-> "none"]
  /\ resp = [r \in Requests |-> None]
  /\ loc = [r \in Requests |-> NoLoc]
  /\ run = [r \in Requests |-> NoRun]
  /\ vres = [r \in Requests |-> None]
  /\ hist = [r \in Requests |-> NoHist]

Next ==
  \E r \in Requests :
    \/ Receive(r)
    \/ check_app_existence(r)
    \/ insert_ui_summary(r)
    \/ check_datasource_connectivity(r)
    \/ checker_connectivity(r)
    \/ StartProbe(r)
    \/ YieldProbe(r)
    \/ VerifierReturn(r)
    \/ connectivity_verdict(r)
    \/ create_api_key(r)
    \/ fetch_api_key(r)
    \/ check_usage_plan_exists(r)
    \/ check_usage_plan_with_api_key(r)
    \/ associate_api_key_with_usage_plan(r)
    \/ spawn_background_tasks(r)
    \/ respond_created(r)
    \/ bg_id_document(r)
    \/ bg_create_app(r)
    \/ bg_check_datasource_change(r)
    \/ bg_update_app(r)
    \/ bg_notify_kafka(r)

Spec == Init /\ [][Next]_vars

\* ------------------------------------- one request and its environment
\* mutant: the background task lives in the request's scope and goes with it
client_disconnect_cancels(r) ==
  /\ pc[r] \notin {"idle", "off", "done", "dropped"}
  /\ pc' = [pc EXCEPT ![r] = "dropped"]
  /\ run' = [run EXCEPT ![r] = NoRun]
  /\ bg' = [bg EXCEPT ![r] = IF @ \in {"none", "done", "stopped"} THEN @ ELSE "cancelled"]
  /\ UNCHANGED <<settings, storeVars, req, resp, loc, vres, hist>>

\* the client goes away: the handler's future is dropped at the await it is
\* suspended in (its probes with it) or, past the last await, its response is
\* written to a closed connection. The task handed to tokio::spawn is detached.
client_disconnect(r) ==
  /\ pc[r] \notin {"idle", "off", "done", "dropped"}
  /\ pc' = [pc EXCEPT ![r] = "dropped"]
  /\ run' = [run EXCEPT ![r] = NoRun]
  /\ UNCHANGED <<settings, storeVars, req, bg, resp, loc, vres, hist>>

\* DELETE of an application by the admin API: the document is deleted, then the
\* API key (which takes it out of the usage plan); the key call may fail
delete_app(app_name) ==
  /\ appColl[app_name] # <<>>
  /\ appColl' = [appColl EXCEPT ![app_name] = Tail(@)]
  /\ \E key_ok \in BOOLEAN :
       LET api_key_id == Head(appColl[app_name]).api_key_id
       IN /\ apiKeys' = IF key_ok THEN {k \in apiKeys : k.id # api_key_id} ELSE apiKeys
          /\ planKeys' = IF key_ok THEN planKeys \ {api_key_id} ELSE planKeys
  /\ UNCHANGED <<settings, idColl, uiColl, kafka, req, pc, bg, resp, loc, run, vres, hist>>

\* a step of the detached background task of r
BackgroundStep(r) ==
  \/ bg_id_document(r)
  \/ bg_create_app(r)
  \/ bg_check_datasource_change(r)
  \/ bg_update_app(r)
  \/ bg_notify_kafka(r)

InitE ==
  /\ Init
  /\ appColl["other"] = <<>>

NextE ==
  \/ \E r \in {1} :
       \/ Receive(r)
       \/ check_app_existence(r)
       \/ insert_ui_summary(r)
       \/ check_datasource_connectivity(r)
       \/ checker_connectivity(r)
       \/ StartProbe(r)
       \/ YieldProbe(r)
       \/ VerifierReturn(r)
       \/ connectivity_verdict(r)
       \/ create_api_key(r)
       \/ fetch_api_key(r)
       \/ check_usage_plan_exists(r)
       \/ check_usage_plan_with_api_key(r)
       \/ associate_api_key_with_usage_plan(r)
       \/ spawn_background_tasks(r)
       \/ respond_created(r)
       \/ client_disconnect(r)
       \/ bg_id_document(r)
       \/ bg_create_app(r)
       \/ bg_check_datasource_change(r)
       \/ bg_update_app(r)
       \/ bg_notify_kafka(r)
  \/ \E app_name \in RequestApps : delete_app(app_name)

\* the runtime keeps polling a spawned task, and every store and producer call of
\* the task returns (with a result or an error)
SpecE == InitE /\ [][NextE]_vars /\ \A r \in Requests : WF_vars(BackgroundStep(r))

\* ------------------------------------------- one request, polled to its end
\* the pipeline of one request, nothing else touching the stores
NextL ==
  \E r \in {1} :
    \/ Receive(r)
    \/ check_app_existence(r)
    \/ insert_ui_summary(r)
    \/ check_datasource_connectivity(r)
    \/ checker_connectivity(r)
    \/ StartProbe(r)
    \/ YieldProbe(r)
    \/ VerifierReturn(r)
    \/ connectivity_verdict(r)
    \/ create_api_key(r)
    \/ fetch_api_key(r)
    \/ check_usage_plan_exists(r)
    \/ check_usage_plan_with_api_key(r)
    \/ associate_api_key_with_usage_plan(r)
    \/ spawn_background_tasks(r)
    \/ respond_created(r)
    \/ bg_id_document(r)
    \/ bg_create_app(r)
    \/ bg_check_datasource_change(r)
    \/ bg_update_app(r)
    \/ bg_notify_kafka(r)

\* the runtime keeps polling the handler's future and the spawned task, and every
\* call either of them awaits returns
SpecL ==
  /\ Init /\ [][NextL]_vars
  /\ \A r \in Requests : WF_vars(BackgroundStep(r))

\* ---------------------------------------- the connectivity step on its own
\* topologies that declare any kinds under either family, with one resource each
KindTopologies == {AppDataSource(fk, dk, 1) : fk \in SUBSET AllKinds, dk \in SUBSET AllKinds}

\* a request stands before check_datasource_connectivity
InitK ==
  /\ settings = [aws_s3_max_concurrent_requests |-> 1,
                 datastore_max_concurrent_requests |-> 1]
  /\ appColl = [a \in Apps |-> <<>>]
  /\ idColl = {} /\ uiColl = {} /\ kafka = <<>> /\ apiKeys = {} /\ planKeys = {}
  /\ \E topo \in KindTopologies :
       req = [r \in Requests |->
                IF r = 1 THEN [app_name |-> "demo", is_update |-> "absent",
                               app_datasource |-> topo]
                         ELSE None]
  /\ pc = [r \in Requests |-> IF r = 1 THEN "check_connectivity" ELSE "off"]
  /\ bg = [r \in Requests |-> "none"]
  /\ resp = [r \in Requests |-> None]
  /\ loc = [r \in Requests |-> NoLoc]
  /\ run = [r \in Requests |-> NoRun]
  /\ vres = [r \in Requests |-> None]
  /\ hist = [r \in Requests |-> NoHist]

NextK ==
  \E r \in Requests :
    \/ check_datasource_connectivity(r)
    \/ checker_connectivity(r)
    \/ StartProbe(r)
    \/ YieldProbe(r)
    \/ VerifierReturn(r)
    \/ connectivity_verdict(r)

SpecK == InitK /\ [][NextK]_vars

\* ------------------------------------------------- two requests and the admin
\* the pipeline of two requests while the admin endpoint may delete the app
NextR ==
  \/ Next
  \/ \E app_name \in RequestApps : delete_app(app_name)

SpecR == InitE /\ [][NextR]_vars

\* ------------------------------------------------- the database probe on its own
\* the most tables one database entry declares
MaxTables == 3

\* database entries for a direct call of process_database: each db_type with a
\* branch and one without, and zero to MaxTables tables named by their position
ProbeDataStores ==
  {[host |-> 1, db_type |-> db_type,
    tables |-> [j \in 1..n |-> Table(j, None, None)]] :
     db_type \in relational_db_types \cup search_db_types \cup {"oracle"},
     n \in 0..MaxTables}

\* a caller stands before process_database with one entry; the client builder
\* succeeds or fails, and each existence query finds the table, counts 0 or fails
InitB ==
  /\ settings = [aws_s3_max_concurrent_requests |-> 1,
                 datastore_max_concurrent_requests |-> 1]
  /\ appColl = [a \in Apps |-> <<>>]
  /\ idColl = {} /\ uiColl = {} /\ kafka = <<>> /\ apiKeys = {} /\ planKeys = {}
  /\ \E db \in ProbeDataStores, client_ok \in BOOLEAN :
       \E outcomes \in [DOMAIN db.tables -> {"found", "zero", "error"}] :
         run = [r \in Requests |->
                  IF r = 1 THEN [db |-> db, client_ok |-> client_ok,
                                 outcomes |-> outcomes]
                           ELSE NoRun]
  /\ req = [r \in Requests |-> None]
  /\ pc = [r \in Requests |-> IF r = 1 THEN "process_database" ELSE "off"]
  /\ bg = [r \in Requests |-> "none"]
  /\ resp = [r \in Requests |-> None]
  /\ loc = [r \in Requests |-> NoLoc]
  /\ vres = [r \in Requests |-> None]
  /\ hist = [r \in Requests |-> NoHist]

\* process_database on the entry, with the calls it made
process_database_call(r) ==
  /\ pc[r] = "process_database"
  /\ LET out == process_database(run[r].db, run[r].client_ok, run[r].outcomes)
     IN /\ vres' = [vres EXCEPT ![r] = out]
        /\ hist' = [hist EXCEPT ![r].db_clients = @ + out.builds,
                                ![r].db_queries = @ + out.queries]
  /\ pc' = [pc EXCEPT ![r] = "returned"]
  /\ UNCHANGED <<settings, storeVars, req, bg, resp, loc, run>>

NextB == \E r \in Requests : process_database_call(r)

SpecB == InitB /\ [][NextB]_vars

\* ------------------------------------------------- the object probe on its own
\* an object key is a string: a sequence of characters. "a" stands for a character
\* of a name, "p" for one of a supported file type, "/" is left to the names
KeyChars == {"a", "p", ".", "*"}

\* supported_file_types.image and .text of the settings
supported_file_types == {<<"p">>}

\* the longest object key
MaxKeyLen == 4

\* object.contains(c)
contains(s, c) == \E i \in DOMAIN s : s[i] = c

\* s.split(c).collect(): the pieces between the occurrences of c, at least one
RECURSIVE split(_, _)
split(s, c) ==
  IF ~contains(s, c)
    THEN <<s>>
    ELSE LET i == CHOOSE k \in DOMAIN s : s[k] = c /\ \A j \in 1..(k - 1) : s[j] # c
         IN <<SubSeq(s, 1, i - 1)>> \o split(SubSeq(s, i + 1, Len(s)), c)

\* s.trim_start_matches(c)
RECURSIVE trim_start_matches(_, _)
trim_start_matches(s, c) ==
  IF s # <<>> /\ Head(s) = c THEN trim_start_matches(Tail(s), c) ELSE s

\* parts.get(i).unwrap_or(&""), i counted from 0
get_or_empty(parts, i) == IF i + 1 \in DOMAIN parts THEN parts[i + 1] ELSE <<>>

\* the error strings of process_url; each names the key it is about
UrlError(error, object, detail) == [error |-> error, object |-> object, detail |-> detail]

\* handle_wildcard_object: list_objects_v2 with the folder as prefix, if there is
\* one, then the extension against the allow-list. listing: "some", "empty", "error"
handle_wildcard_object(object, listing) ==
  LET parts == split(object, "*")
      folder == get_or_empty(parts, 0)
      extension == trim_start_matches(get_or_empty(parts, 1), ".")
      lists == IF folder # <<>> THEN 1 ELSE 0
  IN IF folder # <<>> /\ listing = "empty"
       THEN [result |-> UrlError("path does not exist", object, folder),
             lists |-> lists, gets |-> 0]
     ELSE IF folder # <<>> /\ listing = "error"
       THEN [result |-> UrlError("failed to list objects", object, folder),
             lists |-> lists, gets |-> 0]
     ELSE IF extension # <<>> /\ extension \notin supported_file_types
       THEN [result |-> UrlError("unsupported file extension", object, extension),
             lists |-> lists, gets |-> 0]
     ELSE [result |-> None, lists |-> lists, gets |-> 0]

\* handle_non_wildcard_object: object.split('.').last() against the allow-list,
\* then get_object
handle_non_wildcard_object(object, get_ok) ==
  LET parts == split(object, ".")
      extension == parts[Len(parts)]
  IN IF extension # <<>> /\ extension \notin supported_file_types
       THEN [result |-> UrlError("unsupported file extension", object, extension),
             lists |-> 0, gets |-> 0]
     ELSE IF get_ok
       THEN [result |-> None, lists |-> 0, gets |-> 1]
     ELSE [result |-> UrlError("failed to access", object, None),
           lists |-> 0, gets |-> 1]

\* mutant: a wildcard key is checked like any other key
process_url_without_wildcard(object, bucket_ok, listing, get_ok) ==
  IF ~bucket_ok
    THEN [result |-> UrlError("failed to connect to bucket", object, None),
          lists |-> 0, gets |-> 0]
    ELSE handle_non_wildcard_object(object, get_ok)

\* process_url from get_bucket_location on, for the decoded object key
process_url(object, bucket_ok, listing, get_ok) ==
  IF ~bucket_ok
    THEN [result |-> UrlError("failed to connect to bucket", object, None),
          lists |-> 0, gets |-> 0]
  ELSE IF contains(object, "*")
    THEN handle_wildcard_object(object, listing)
  ELSE handle_non_wildcard_object(object, get_ok)

\* the object keys of a FileSource: at most one wildcard
ObjectKeys ==
  {key \in UNION {[1..n -> KeyChars] : n \in 0..MaxKeyLen} :
     Cardinality({i \in DOMAIN key : key[i] = "*"}) <= 1}

\* a caller stands before process_url with one key; the bucket is reachable or
\* not, the listing returns some objects, none or fails, get_object succeeds or not
InitF ==
  /\ settings = [aws_s3_max_concurrent_requests |-> 1,
                 datastore_max_concurrent_requests |-> 1]
  /\ appColl = [a \in Apps |-> <<>>]
  /\ idColl = {} /\ uiColl = {} /\ kafka = <<>> /\ apiKeys = {} /\ planKeys = {}
  /\ \E object \in ObjectKeys, bucket_ok \in BOOLEAN, get_ok \in BOOLEAN,
        listing \in {"some", "empty", "error"} :
       run = [r \in Requests |->
                IF r = 1 THEN [object |-> object, bucket_ok |-> bucket_ok,
                               listing |-> listing, get_ok |-> get_ok]
                         ELSE NoRun]
  /\ req = [r \in Requests |-> None]
  /\ pc = [r \in Requests |-> IF r = 1 THEN "process_url" ELSE "off"]
  /\ bg = [r \in Requests |-> "none"]
  /\ resp = [r \in Requests |-> None]
  /\ loc = [r \in Requests |-> NoLoc]
  /\ vres = [r \in Requests |-> None]
  /\ hist = [r \in Requests |-> NoHist]

\* process_url on the key, with the calls it made
process_url_call(r) ==
  /\ pc[r] = "process_url"
  /\ vres' = [vres EXCEPT ![r] = process_url(run[r].object, run[r].bucket_ok,
                                             run[r].listing, run[r].get_ok)]
  /\ pc' = [pc EXCEPT ![r] = "returned"]
  /\ UNCHANGED <<settings, storeVars, req, bg, resp, loc, run, hist>>

NextF == \E r \in Requests : process_url_call(r)

SpecF == InitF /\ [][NextF]_vars

\* ------------------------------------------------- the diff on its own
\* topologies for a direct call of check_datasource_change: lists of zero to two
\* files in either order, one database with either host, and one table with each
\* shape of its optional fields
DiffFileLists ==
  {<<>>, <<FileStore(1)>>, <<FileStore(2)>>,
   <<FileStore(1), FileStore(2)>>, <<FileStore(2), FileStore(1)>>}

DiffTables ==
  {Table("t", columns, sample_rows) :
     columns \in {None, Some(<<>>), Some(<<"c">>)},
     sample_rows \in {None, Some("rows")}}

DiffDbLists ==
  {<<>>} \cup {<<[host |-> host, db_type |-> "mysql", tables |-> <<table>>]>> :
                 host \in {1, 2}, table \in DiffTables}

DiffTopologies ==
  {[filestore |-> fs, datastore |-> ds] :
     fs \in {[k \in {} |-> <<>>]} \cup {[k \in {"s3"} |-> fl] : fl \in DiffFileLists},
     ds \in {[k \in {} |-> <<>>]} \cup {[k \in {"rds_mysql"} |-> dl] : dl \in DiffDbLists}}

\* the background task of an update stands before its diff; the collection holds
\* no document of the app, or the document an earlier request of the pipeline wrote
InitD ==
  /\ settings = [aws_s3_max_concurrent_requests |-> 1,
                 datastore_max_concurrent_requests |-> 1]
  /\ \E stored \in {<<>>} \cup
                  {<<generate_app_document([app_name |-> "demo", app_datasource |-> P],
                                            0, 0, 0, TRUE)>> : P \in DiffTopologies} :
       appColl = [a \in Apps |-> IF a = "demo" THEN stored ELSE <<>>]
  /\ idColl = {} /\ uiColl = {} /\ apiKeys = {} /\ planKeys = {} /\ kafka = <<>>
  /\ \E N \in DiffTopologies :
       req = [r \in Requests |->
                IF r = 1 THEN [app_name |-> "demo", is_update |-> "true",
                               app_datasource |-> N]
                         ELSE None]
  /\ pc = [r \in Requests |-> "off"]
  /\ bg = [r \in Requests |-> IF r = 1 THEN "diff" ELSE "none"]
  /\ resp = [r \in Requests |-> None]
  /\ loc = [r \in Requests |-> NoLoc]
  /\ run = [r \in Requests |-> NoRun]
  /\ vres = [r \in Requests |-> None]
  /\ hist = [r \in Requests |-> NoHist]

NextD == \E r \in Requests : bg_check_datasource_change(r)

SpecD == InitD /\ [][NextD]_vars

\* ------------------------------------------------- the usage plan on its own
\* key ids a caller of update_api_key_with_usage_plan may hold
KeyIds == {1, 2, 3}

\* a caller stands before update_api_key_with_usage_plan with one key id; the
\* plan holds any of the keys
InitU ==
  /\ settings = [aws_s3_max_concurrent_requests |-> 1,
                 datastore_max_concurrent_requests |-> 1]
  /\ appColl = [a \in Apps |-> <<>>]
  /\ idColl = {} /\ uiColl = {} /\ kafka = <<>>
  /\ apiKeys = {[name |-> api_key_name("demo"), id |-> k] : k \in KeyIds}
  /\ planKeys \in SUBSET KeyIds
  /\ req = [r \in Requests |->
              IF r = 1 THEN [app_name |-> "demo", is_update |-> "true",
                             app_datasource |-> AppDataSource({"s3"}, {}, 1)]
                       ELSE None]
  /\ pc = [r \in Requests |-> IF r = 1 THEN "usage_plan" ELSE "off"]
  /\ bg = [r \in Requests |-> "none"]
  /\ resp = [r \in Requests |-> None]
  /\ \E k \in KeyIds :
       loc = [r \in Requests |-> IF r = 1 THEN [NoLoc EXCEPT !.api_key_id = k]
                                          ELSE NoLoc]
  /\ run = [r \in Requests |-> NoRun]
  /\ vres = [r \in Requests |-> None]
  /\ hist = [r \in Requests |-> NoHist]

\* the call returned Ok(()) and the caller calls once more with the same key id
update_api_key_with_usage_plan_again(r) ==
  /\ pc[r] = "spawn"
  /\ hist[r].plan_calls < 2
  /\ pc' = [pc EXCEPT ![r] = "usage_plan"]
  /\ UNCHANGED <<settings, storeVars, req, bg, resp, loc, run, vres, hist>>

NextU ==
  \E r \in Requests :
    \/ check_usage_plan_exists(r)
    \/ check_usage_plan_with_api_key(r)
    \/ associate_api_key_with_usage_plan(r)
    \/ update_api_key_with_usage_plan_again(r)

SpecU == InitU /\ [][NextU]_vars

\* --------------------------------------------- two callers of the usage plan
\* two requests stand before update_api_key_with_usage_plan, each with a key id;
\* the plan holds any of the keys
InitA ==
  /\ settings = [aws_s3_max_concurrent_requests |-> 1,
                 datastore_max_concurrent_requests |-> 1]
  /\ appColl = [a \in Apps |-> <<>>]
  /\ idColl = {} /\ uiColl = {} /\ kafka = <<>>
  /\ apiKeys = {[name |-> api_key_name("demo"), id |-> k] : k \in KeyIds}
  /\ planKeys \in SUBSET KeyIds
  /\ req = [r \in Requests |->
              [app_name |-> "demo", is_update |-> "true",
               app_datasource |-> AppDataSource({"s3"}, {}, 1)]]
  /\ pc = [r \in Requests |-> "usage_plan"]
  /\ bg = [r \in Requests |-> "none"]
  /\ resp = [r \in Requests |-> None]
  /\ loc \in {l \in [Requests -> {[NoLoc EXCEPT !.api_key_id = k] : k \in KeyIds}] : TRUE}
  /\ run = [r \in Requests |-> NoRun]
  /\ vres = [r \in Requests |-> None]
  /\ hist = [r \in Requests |-> NoHist]

NextA ==
  \E r \in Requests :
    \/ check_usage_plan_exists(r)
    \/ check_usage_plan_with_api_key(r)
    \/ associate_api_key_with_usage_plan(r)

SpecA == InitA /\ [][NextA]_vars

\* ------------------------------------------------- the key listing on its own
\* the longest listing of a plan's keys, in pages
MaxPages == 3

\* the listings of a plan: one to MaxPages pages, each with any of the keys
PageLists ==
  UNION {[1..n -> SUBSET {1, 2}] : n \in 1..MaxPages}

\* a caller stands before check_usage_plan_with_api_key with one key id; the
\* gateway holds a listing and fails the list call of some pages
InitP ==
  /\ settings = [aws_s3_max_concurrent_requests |-> 1,
                 datastore_max_concurrent_requests |-> 1]
  /\ appColl = [a \in Apps |-> <<>>]
  /\ idColl = {} /\ uiColl = {} /\ kafka = <<>> /\ apiKeys = {}
  /\ \E pages \in PageLists :
       /\ planKeys = UNION {pages[i] : i \in DOMAIN pages}
       /\ \E failing \in SUBSET (1..Len(pages)) :
            run = [r \in Requests |->
                     IF r = 1 THEN [pages |-> pages, failing |-> failing] ELSE NoRun]
  /\ req = [r \in Requests |-> None]
  /\ pc = [r \in Requests |-> IF r = 1 THEN "usage_plan_key_pages" ELSE "off"]
  /\ bg = [r \in Requests |-> "none"]
  /\ resp = [r \in Requests |-> None]
  /\ \E k \in {1, 2} :
       loc = [r \in Requests |-> IF r = 1 THEN [NoLoc EXCEPT !.api_key_id = k]
                                          ELSE NoLoc]
  /\ vres = [r \in Requests |-> None]
  /\ hist = [r \in Requests |-> NoHist]

\* check_usage_plan_with_api_key on a listing of several pages
check_usage_plan_with_api_key_pages(r) ==
  /\ pc[r] = "usage_plan_key_pages"
  /\ LET out == usage_plan_keys_loop(run[r].pages, loc[r].api_key_id, None,
                                     run[r].failing, 0)
     IN /\ vres' = [vres EXCEPT ![r] = out]
        /\ hist' = [hist EXCEPT ![r].key_lists = @ + out.calls]
  /\ pc' = [pc EXCEPT ![r] = "returned"]
  /\ UNCHANGED <<settings, storeVars, req, bg, resp, loc, run>>

NextP == \E r \in Requests : check_usage_plan_with_api_key_pages(r)

SpecP == InitP /\ [][NextP]_vars

\* ------------------------------------------------- the verifier on its own
EmptyStore ==
  /\ appColl = [a \in Apps |-> <<>>]
  /\ idColl = {}
  /\ uiColl = {}
  /\ apiKeys = {}
  /\ planKeys = {}
  /\ kafka = <<>>

InitV ==
  /\ settings \in [aws_s3_max_concurrent_requests : 1..MaxCapV,
                   datastore_max_concurrent_requests : 1..MaxCapV]
  /\ EmptyStore
  /\ req = [r \in Requests |-> None]
  /\ pc = [r \in Requests |-> IF r = 1 THEN "direct" ELSE "off"]
  /\ bg = [r \in Requests |-> "none"]
  /\ resp = [r \in Requests |-> None]
  /\ loc = [r \in Requests |-> NoLoc]
  /\ run = [r \in Requests |-> NoRun]
  /\ vres = [r \in Requests |-> None]
  /\ hist = [r \in Requests |-> NoHist]

NextV ==
  \E r \in Requests :
    \/ DirectCall(r)
    \/ StartProbe(r)
    \/ YieldProbe(r)
    \/ VerifierReturn(r)

SpecV == InitV /\ [][NextV]_vars

\* ------------------------------------------------------------------ claims
\* the list a direct verifier call of request r runs over
CalledResources(r) ==
  IF req[r].family = "filestore"
    THEN IF req[r].key \in DOMAIN req[r].app_datasource.filestore
           THEN req[r].app_datasource.filestore[req[r].key] ELSE <<>>
    ELSE req[r].app_datasource.datastore[req[r].key]

\* the call can build what it needs: the kind is declared and the credential
\* context is built (a filestore call needs neither)
Constructible(r) ==
  \/ req[r].family = "filestore"
  \/ /\ req[r].key \in DOMAIN req[r].app_datasource.datastore
     /\ req[r].auth_ok

\* C5: a per-kind verifier call over N resources of which K probes fail returns Ok
\* with exactly K error strings, the string of each failed probe once and none of
\* a successful probe, whatever the failing subset, the order in which the probes
\* finish and the cap (>= 1); and a run that has not returned can always take a
\* step, so it also completes with a cap of 1.
C5_ExactlyKErrors ==
  \A r \in Requests :
    /\ (pc[r] = "returned" /\ Constructible(r)) =>
         /\ vres[r].ok
         /\ Len(vres[r].errors) = Cardinality(req[r].failing)
         /\ \A i \in 1..Len(CalledResources(r)) :
              (i \in req[r].failing) <=>
                \E j \in 1..Len(vres[r].errors) :
                  vres[r].errors[j] = ProbeError(req[r].family, req[r].key, CalledResources(r)[i])
    /\ (pc[r] = "probing") =>
         \/ run[r].next <= Len(run[r].resources) /\ Cardinality(run[r].inflight) < run[r].cap
         \/ run[r].inflight # {}
         \/ ENABLED VerifierReturn(r)

\* C5 witness: 3 resources, 2 failed probes, a cap of 1, and the call has returned 2 strings
C5_Witness ==
  \E r \in Requests :
    /\ pc[r] = "returned"
    /\ Constructible(r)
    /\ settings.aws_s3_max_concurrent_requests = 1
    /\ req[r].family = "filestore"
    /\ Len(CalledResources(r)) = 3
    /\ Cardinality(req[r].failing) = 2
    /\ Len(vres[r].errors) = 2

\* the cap the settings give the family of a verifier call
ConfiguredCap(family) ==
  IF family = "filestore"
    THEN settings.aws_s3_max_concurrent_requests
    ELSE settings.datastore_max_concurrent_requests

\* C6: at every moment of a verifier call the number of probes in flight is at most
\* the configured cap of its family (aws_s3.max_concurrent_requests for filestore,
\* datastore.max_concurrent_requests for datastore).
C6_InFlightWithinCap ==
  \A r \in Requests :
    run[r].active => Cardinality(run[r].inflight) <= ConfiguredCap(run[r].family)

\* C6 witness: the cap binds: cap probes are in flight and a further resource waits
C6_Witness ==
  \E r \in Requests :
    /\ run[r].active
    /\ ConfiguredCap(run[r].family) >= 2
    /\ Cardinality(run[r].inflight) = ConfiguredCap(run[r].family)
    /\ run[r].next <= Len(run[r].resources)

\* C8: a per-kind verifier call that has started a probe returns Ok, whatever the
\* probes found; a call returns a structured error only if the kind has no entry in
\* the topology or the credential context cannot be built, and a FilestoreChecker
\* call never does.
C8_OkWhateverProbesFind ==
  \A r \in Requests :
    (pc[r] = "returned") =>
      /\ (hist[r].probes > 0 => vres[r].ok)
      /\ (Constructible(r) => vres[r].ok)
      /\ (~vres[r].ok => /\ req[r].family = "datastore"
                         /\ \/ req[r].key \notin DOMAIN req[r].app_datasource.datastore
                            \/ ~req[r].auth_ok)

\* C8 witness: every probe of the call failed and the call returned Ok with the strings
C8_Witness ==
  \E r \in Requests :
    /\ pc[r] = "returned"
    /\ vres[r].ok
    /\ Len(CalledResources(r)) >= 2
    /\ req[r].failing = 1..Len(CalledResources(r))
    /\ Len(vres[r].errors) = Len(CalledResources(r))

\* ---- the pipeline claims
\* the request of r has been received
Received(r) == req[r] # None

\* the response of r is an error response with this message
Rejected(r, tag) == resp[r] # None /\ resp[r].status # 201 /\ resp[r].message.tag = tag

\* documents and messages written on behalf of request r
UiDocsOf(r) == {d \in uiColl : d.by = r}
IdDocsOf(r) == {d \in idColl : d.task_id = r}
MessagesOf(r) == {i \in DOMAIN kafka : kafka[i].task_id = r}

\* the request has run no probe, touched no key, written nothing and spawned nothing
Untouched(r) ==
  /\ hist[r] = NoHist
  /\ ~run[r].active
  /\ bg[r] = "none"
  /\ UiDocsOf(r) = {} /\ IdDocsOf(r) = {} /\ MessagesOf(r) = {}

\* C1: when the existence check of a request answers (an absent is_update counts as
\* false): an update of an app that has no document, or an onboarding of an app that
\* has one, is rejected with 400 "doesn't exist" resp. "already exists", any other
\* request passes the gate; and a request rejected by the gate has run no probe,
\* created or fetched no key, written no document and spawned no background task.
C1_ExistenceGate ==
  [][\A r \in Requests :
       /\ (pc[r] = "check_app_existence" /\ pc'[r] # pc[r]
             /\ ~Rejected(r, "existence check failed")') =>
            LET exists == appColl[req[r].app_name] # <<>>
                upd == req[r].is_update = "true"
            IN /\ (upd /\ ~exists) =>
                    (resp'[r] = ErrorResponse(400, [tag |-> "doesn't exist"], <<>>)
                       /\ pc'[r] = "done")
               /\ (~upd /\ exists) =>
                    (resp'[r] = ErrorResponse(400, [tag |-> "already exists"], <<>>)
                       /\ pc'[r] = "done")
               /\ (upd <=> exists) => (resp'[r] = None /\ pc'[r] = "ui_summary")
               /\ appColl' = appColl
       /\ (Rejected(r, "doesn't exist")' \/ Rejected(r, "already exists")') =>
            Untouched(r)'
  ]_vars

\* C1 witness: an onboarding without is_update for an app that exists got the 400
C1_Witness ==
  \E r \in Requests :
    /\ Rejected(r, "already exists")
    /\ resp[r].status = 400
    /\ req[r].is_update = "absent"
    /\ appColl[req[r].app_name] # <<>>
    /\ Untouched(r)

RECURSIVE SumLen(_, _)
SumLen(f, S) ==
  IF S = {} THEN 0
  ELSE LET k == CHOOSE x \in S : TRUE IN Len(f[k]) + SumLen(f, S \ {k})

\* the number of resources the topology of r declares, over all kinds
TotalResources(r) ==
  SumLen(req[r].app_datasource.filestore, DOMAIN req[r].app_datasource.filestore)
    + SumLen(req[r].app_datasource.datastore, DOMAIN req[r].app_datasource.datastore)

\* an ID document keyed by the reference id of request r
MarkerOf(r) ==
  [app_name |-> req[r].app_name, reference_id |-> loc[r].reference_id, task_id |-> r]

\* C2: the background task of a request is spawned only after, in that request, the
\* existence gate passed, every declared resource was probed without a failure, the
\* key was created (onboarding) or fetched (update) and the key is in the usage
\* plan; and a request that got an error response has no background task, no ID
\* document under its reference id, no Application document write and no
\* notification.
C2_FailFast ==
  \A r \in Requests :
    /\ (hist[r].spawned \/ bg[r] # "none") =>
         /\ hist[r].spawned
         /\ (req[r].is_update = "true") <=> loc[r].app_exists
         /\ UiDocsOf(r) # {}
         /\ loc[r].kinds = <<>> /\ loc[r].connectivity_errors = <<>>
         /\ hist[r].failed = {} /\ hist[r].probes = TotalResources(r)
         /\ IF req[r].is_update = "true"
              THEN hist[r].key_fetches = 1 /\ hist[r].key_creates = 0
              ELSE hist[r].key_creates = 1 /\ hist[r].key_fetches = 0
         /\ hist[r].plan_calls = 1
         /\ loc[r].api_key_id \in planKeys
    /\ (resp[r] # None /\ resp[r].status # 201) =>
         /\ ~hist[r].spawned /\ bg[r] = "none"
         /\ MarkerOf(r) \notin idColl
         /\ hist[r].app_writes = 0
         /\ MessagesOf(r) = {}
         /\ ~hist[r].audit

\* C2 witness: a request that had to associate its key was spawned, and another
\* request ended in an error after its key was created
C2_Witness ==
  \E r, q \in Requests :
    /\ hist[r].spawned /\ hist[r].associates = 1 /\ hist[r].probes = MaxRes
    /\ Rejected(q, "associate failed") /\ hist[q].key_creates = 1 /\ bg[q] = "none"

\* kinds the topology of r declares, and those outside the allow-list
DeclaredKinds(r) ==
  DOMAIN req[r].app_datasource.filestore \cup DOMAIN req[r].app_datasource.datastore

OffendingKinds(r) == DeclaredKinds(r) \ (file_store \cup data_store)

Range(q) == {q[i] : i \in DOMAIN q}

\* C3: a request whose topology declares a kind outside the allow-list never starts
\* a probe or a credential-context build for any kind and never gets past
\* check_datasource_connectivity, which answers 400 with an errors list naming every
\* offending kind and no other; so whenever a probe has started, every declared
\* kind is in the allow-list.
C3_UnsupportedShortCircuits ==
  \A r \in Requests :
    /\ (Received(r) /\ OffendingKinds(r) # {}) =>
         /\ hist[r].probes = 0 /\ hist[r].auth_builds = 0 /\ ~run[r].active
         /\ pc[r] \in {"check_app_existence", "ui_summary", "check_connectivity", "done"}
         /\ (pc[r] = "done" /\ UiDocsOf(r) # {}) =>
              /\ Rejected(r, "unsupported data sources")
              /\ resp[r].status = 400
              /\ Range(resp[r].errors) = OffendingKinds(r)
    /\ (Received(r) /\ (hist[r].probes > 0 \/ run[r].active)) => OffendingKinds(r) = {}

\* C3 witness: supported and unsupported kinds declared together; the 400 names the
\* unsupported one and the supported ones were not probed
C3_Witness ==
  \E r \in Requests :
    /\ Rejected(r, "unsupported data sources")
    /\ DeclaredKinds(r) = {"s3", "oracle", "rds_mysql"}
    /\ Range(resp[r].errors) = {"oracle"}
    /\ hist[r].probes = 0 /\ hist[r].auth_builds = 0

\* every declared kind of r is outside the allow-list
AllUnsupported(r) == DeclaredKinds(r) # {} /\ OffendingKinds(r) = DeclaredKinds(r)

\* how often kind k occurs in the list q
Occurrences(q, k) == Cardinality({i \in DOMAIN q : q[i] = k})

\* C4 as claimed: with every declared kind unsupported, the errors list has exactly
\* one entry per distinct unsupported kind, and no probe is issued.
C4_OnePerDistinctKind ==
  \A r \in Requests :
    (Received(r) /\ AllUnsupported(r) /\ Rejected(r, "unsupported data sources")) =>
      /\ Len(resp[r].errors) = Cardinality(OffendingKinds(r))
      /\ hist[r].probes = 0

\* C4 amended: with every declared kind unsupported, the errors list has exactly one
\* entry per declared key of each family, the filestore keys first (a kind declared
\* under both filestore and datastore is listed twice), and no probe or
\* credential-context build is issued.
C4_OnePerDeclaredKey ==
  \A r \in Requests :
    (Received(r) /\ AllUnsupported(r) /\ Rejected(r, "unsupported data sources")) =>
      LET fs == DOMAIN req[r].app_datasource.filestore
          ds == DOMAIN req[r].app_datasource.datastore
          errors == resp[r].errors
      IN /\ Len(errors) = Cardinality(fs) + Cardinality(ds)
         /\ \A k \in AllKinds :
              Occurrences(errors, k) =
                (IF k \in fs THEN 1 ELSE 0) + (IF k \in ds THEN 1 ELSE 0)
         /\ Range(SubSeq(errors, 1, Cardinality(fs))) = fs
         /\ Range(SubSeq(errors, Cardinality(fs) + 1, Len(errors))) = ds
         /\ hist[r].probes = 0 /\ hist[r].auth_builds = 0 /\ ~run[r].active

\* C4 witness: two distinct unsupported kinds, one of them under both families, gave
\* three entries
C4_Witness ==
  \E r \in Requests :
    /\ Rejected(r, "unsupported data sources")
    /\ AllUnsupported(r)
    /\ Cardinality(OffendingKinds(r)) = 2
    /\ Len(resp[r].errors) = 3
    /\ hist[r].probes = 0

\* the strings a verified request reports: one per failed probe, of every kind
AllFailuresReported(r) ==
  /\ resp[r].status = 400
  /\ resp[r].message.tag = "connectivity check failed"
  /\ Range(resp[r].errors) = hist[r].failed
  /\ Len(resp[r].errors) = Cardinality(hist[r].failed)

\* the request created no key, wrote no Application or ID document, published
\* nothing, and left the UI summary record only
OnlyAttemptRecord(r) ==
  /\ hist[r].key_creates = 0 /\ hist[r].key_fetches = 0 /\ hist[r].plan_calls = 0
  /\ hist[r].app_writes = 0 /\ ~hist[r].spawned /\ bg[r] = "none"
  /\ IdDocsOf(r) = {} /\ MessagesOf(r) = {}
  /\ UiDocsOf(r) = {[app_name |-> req[r].app_name, by |-> r]}

\* C7 as claimed: a request with at least one failed probe ends with a 400 whose
\* errors list holds the failure string of every failed probe of every kind, and it
\* creates no key, writes no Application or ID document and publishes nothing.
C7_Always400WithEveryFailure ==
  \A r \in Requests :
    (hist[r].failed # {} /\ pc[r] = "done") =>
      /\ resp[r] # None
      /\ AllFailuresReported(r)
      /\ OnlyAttemptRecord(r)

\* C7 amended: a request with at least one failed probe is never accepted: it creates
\* no key, writes no Application or ID document, publishes nothing and leaves only
\* the UI summary record. It ends either with a 400 whose errors list holds the
\* failure string of every failed probe of every kind, every declared resource
\* having been probed, or, when the verifier call of a later kind returned a
\* structured error, with that error (500) and no errors list.
C7_NoPartialAcceptance ==
  \A r \in Requests :
    (hist[r].failed # {}) =>
      /\ OnlyAttemptRecord(r)
      /\ pc[r] \in {"verify", "probing", "done"}
      /\ (pc[r] = "done") =>
           /\ resp[r] # None
           /\ \/ AllFailuresReported(r) /\ hist[r].probes = TotalResources(r)
              \/ /\ resp[r] = ErrorResponse(500, [tag |-> "aws_auth"], <<>>)
                 /\ hist[r].probes < TotalResources(r)
                 /\ hist[r].auth_builds > 0

\* C7 witness: a probe of a filestore kind and a probe of a datastore kind failed,
\* and the 400 lists both strings
C7_Witness ==
  \E r \in Requests :
    /\ pc[r] = "done" /\ resp[r] # None
    /\ AllFailuresReported(r)
    /\ Len(resp[r].errors) = 2
    /\ \E i, j \in 1..2 : /\ "family" \in DOMAIN resp[r].errors[i]
                          /\ "db_type" \in DOMAIN resp[r].errors[j]
    /\ OnlyAttemptRecord(r)

\* C9 as claimed: when a request is answered 201 with reference_id r, the ID
\* document keyed by r is already in the ID collection.
C9_MarkerBeforeResponse ==
  \A r \in Requests :
    (resp[r] # None /\ resp[r].status = 201) =>
      [app_name |-> req[r].app_name, reference_id |-> resp[r].reference_id,
       task_id |-> r] \in idColl

\* C9 amended: when a request is answered 201 with reference_id r, its background
\* task has been spawned, and the ID document keyed by r is inserted by the first
\* step of that task, not before the response: the document is in the collection
\* only if the task was spawned and has taken that step, and no later step of the
\* task runs without it.
C9_MarkerByBackgroundTask ==
  \A r \in Requests :
    /\ (resp[r] # None /\ resp[r].status = 201) =>
         /\ hist[r].spawned /\ bg[r] # "none"
         /\ resp[r].reference_id = loc[r].reference_id
    /\ (Received(r) /\ MarkerOf(r) \in idColl) =>
         hist[r].spawned /\ bg[r] \notin {"none", "id_document"}
    /\ (bg[r] \in {"create_app", "diff", "update_app", "notify", "done"}) =>
         MarkerOf(r) \in idColl
    /\ (bg[r] = "id_document") => MarkerOf(r) \notin idColl

\* C9 witness: the 201 was produced while the ID document was not yet inserted
C9_Witness ==
  \E r \in Requests :
    /\ resp[r] # None /\ resp[r].status = 201
    /\ bg[r] = "id_document"
    /\ MarkerOf(r) \notin idColl

\* the update request r was diffed as changed
DiffChanged(r) == hist[r].diffed # None /\ hist[r].diffed # req[r].app_datasource

\* C10: at most one notification is published per request; the notification of an
\* onboarding follows the creation of its Application document and carries the new
\* topology and no previous one; that of an update follows a diff that reported a
\* change and carries the new topology and the topology the diff read; a background
\* task that ran to its end published iff it is an onboarding or its diff reported
\* a change, so an update with the stored topology wrote the Application document
\* and published nothing.
C10_NotifyExactlyWhenChanged ==
  \A r \in Requests :
    /\ Cardinality(MessagesOf(r)) <= 1
    /\ \A i \in MessagesOf(r) :
         /\ kafka[i].key = req[r].app_name
         /\ kafka[i].new = req[r].app_datasource
         /\ hist[r].app_writes = 1
         /\ IF req[r].is_update = "true"
              THEN DiffChanged(r) /\ kafka[i].previous = hist[r].diffed
              ELSE kafka[i].previous = None
    /\ (bg[r] = "notify") =>
         /\ hist[r].app_writes = 1
         /\ req[r].is_update = "true" => DiffChanged(r)
    /\ (bg[r] = "done") =>
         /\ hist[r].app_writes = 1
         /\ MessagesOf(r) # {} <=> (req[r].is_update # "true" \/ DiffChanged(r))

\* C10 witness: an update with the stored topology ran to its end: the Application
\* document was written and nothing was published
C10_Witness ==
  \E r \in Requests :
    /\ bg[r] = "done"
    /\ req[r].is_update = "true"
    /\ hist[r].diffed = req[r].app_datasource
    /\ hist[r].app_writes = 1
    /\ MessagesOf(r) = {}

\* the steps background_tasks of r has run, and those among them that failed
BgLog(r) == hist[r].bg_log
WriteSteps(r) == {i \in DOMAIN BgLog(r) : BgLog(r)[i].step \in {"create_app", "update_app"}}
NotifySteps(r) == {i \in DOMAIN BgLog(r) : BgLog(r)[i].step = "notify"}
FailedSteps(r) == {i \in DOMAIN BgLog(r) : BgLog(r)[i].error # "none"}

\* C11: in every background run the publisher is invoked, and a notification
\* published, only after the Application document create/update of that request
\* returned success; if the write fails, the task stops: no notification, no success
\* audit record, and the write is not attempted again.
C11_NotifyAfterWrite ==
  \A r \in Requests :
    /\ \A i \in NotifySteps(r) :
         \E j \in WriteSteps(r) : j < i /\ BgLog(r)[j].error = "none"
    /\ (bg[r] = "notify" \/ MessagesOf(r) # {}) =>
         /\ hist[r].app_writes = 1
         /\ \E j \in WriteSteps(r) : BgLog(r)[j].error = "none"
    /\ Cardinality(WriteSteps(r)) <= 1
    /\ (WriteSteps(r) \cap FailedSteps(r) # {}) =>
         /\ bg[r] = "stopped"
         /\ NotifySteps(r) = {} /\ MessagesOf(r) = {}
         /\ ~hist[r].audit
         /\ hist[r].app_writes = 0

\* C11 witness: the Application document insert of an onboarding failed; the task
\* stopped without a notification
C11_Witness ==
  \E r \in Requests :
    /\ BgLog(r) = <<[step |-> "id_document", error |-> "none"],
                    [step |-> "create_app", error |-> "insert failed"]>>
    /\ bg[r] = "stopped"
    /\ MessagesOf(r) = {}

\* the steps a background task that ran to its end has taken
CompleteChain(r) ==
  IF req[r].is_update # "true"
    THEN <<"id_document", "create_app", "notify">>
    ELSE IF DiffChanged(r)
      THEN <<"id_document", "diff", "update_app", "notify">>
      ELSE <<"id_document", "diff", "update_app">>

\* C12: a failed background step is the last step of its request: the task is
\* stopped and stays stopped, no step is run twice, the response of the request is
\* never changed once produced (a spawned request is answered 201 whatever its task
\* does), and the success audit record is emitted only by a task all of whose steps
\* succeeded.
C12_FailureStopsChain ==
  [][\A r \in Requests :
       /\ (resp[r] # None) => (resp'[r] = resp[r])
       /\ (pc'[r] = "done" /\ hist'[r].spawned) => (resp'[r] # None /\ resp'[r].status = 201)
       /\ (bg[r] = "stopped") =>
            (bg'[r] = "stopped" /\ hist'[r] = hist[r])
       /\ \A i \in FailedSteps(r)' :
            /\ i = Len(BgLog(r)')
            /\ bg'[r] = "stopped"
            /\ ~hist'[r].audit
       /\ \A i, j \in DOMAIN BgLog(r)' :
            (i # j) => (BgLog(r)'[i].step # BgLog(r)'[j].step)
       /\ hist'[r].audit =>
            /\ bg'[r] = "done"
            /\ FailedSteps(r)' = {}
            /\ [i \in DOMAIN BgLog(r)' |-> BgLog(r)'[i].step] = CompleteChain(r)'
  ]_vars

\* C12 witness: after the 201 the diff succeeded and the update failed; the task is
\* stopped and the response is still the 201
C12_Witness ==
  \E r \in Requests :
    /\ resp[r] # None /\ resp[r].status = 201
    /\ bg[r] = "stopped"
    /\ Len(BgLog(r)) = 3
    /\ BgLog(r)[3].step = "update_app" /\ BgLog(r)[3].error # "none"
    /\ ~hist[r].audit

\* C13: once spawned, the background task is left alone by its request: no step of
\* the handler after the spawn (its return, or the client going away) changes the
\* position of the task; and under fair scheduling the task eventually reaches its
\* end or a stop caused by a failed step.
C13_BackgroundRunsToEnd ==
  /\ [][\A r \in Requests :
          (bg[r] # "none" /\ pc'[r] # pc[r]) => (bg'[r] = bg[r])]_vars
  /\ \A r \in Requests : (bg[r] # "none") ~> (bg[r] \in {"done", "stopped"})

\* C13 witness: the client went away after the spawn and the task ran to its end
C13_Witness ==
  \E r \in Requests :
    /\ pc[r] = "dropped"
    /\ hist[r].spawned
    /\ bg[r] = "done"
    /\ hist[r].audit

\* check_datasource_change of r found no document and returned NotFound
NotFoundAtDiff(r) ==
  \E i \in DOMAIN BgLog(r) :
    BgLog(r)[i] = [step |-> "diff", error |-> "no document found"]

\* nothing follows the diff of r: no write, no notification, no success record
NothingAfterDiff(r) ==
  /\ bg[r] = "stopped"
  /\ BgLog(r)[Len(BgLog(r))].step = "diff"
  /\ WriteSteps(r) = {} /\ NotifySteps(r) = {}
  /\ hist[r].app_writes = 0 /\ MessagesOf(r) = {}
  /\ ~hist[r].audit

Persisted(r) == Head(appColl[req[r].app_name]).app_datasource
Submitted(r) == req[r].app_datasource

\* C14: a diff that returned Ok returned (false, None) if the submitted topology is
\* structurally equal to the persisted one and (true, Some(persisted)) otherwise,
\* never (true, None) or (false, Some(_)); so an identical copy gives (false, None)
\* and any added, removed or changed field gives (true, Some(previous)).
C14_DiffIsStructural ==
  \A r \in Requests :
    (bg[r] = "update_app") =>
      /\ (Submitted(r) = Persisted(r)) =>
           /\ ~loc[r].has_datasource_changed
           /\ loc[r].existing_app_datasource = None
      /\ (Submitted(r) # Persisted(r)) =>
           /\ loc[r].has_datasource_changed
           /\ loc[r].existing_app_datasource = Persisted(r)
      /\ loc[r].has_datasource_changed <=> (loc[r].existing_app_datasource # None)

\* C14 witness: the submitted topology differs from the persisted one in the
\* sample_rows of its table only, and the diff returned (true, Some(persisted))
C14_Witness ==
  \E r \in Requests :
    /\ bg[r] = "update_app"
    /\ DOMAIN Submitted(r).datastore = {"rds_mysql"}
    /\ DOMAIN Persisted(r).datastore = {"rds_mysql"}
    /\ Len(Submitted(r).datastore["rds_mysql"]) = 1
    /\ Len(Persisted(r).datastore["rds_mysql"]) = 1
    /\ LET n == Submitted(r).datastore["rds_mysql"][1].tables[1]
           p == Persisted(r).datastore["rds_mysql"][1].tables[1]
       IN /\ n.sample_rows # p.sample_rows
          /\ [Submitted(r) EXCEPT !.datastore["rds_mysql"][1].tables[1].sample_rows =
                p.sample_rows] = Persisted(r)
    /\ loc[r].has_datasource_changed
    /\ loc[r].existing_app_datasource = Persisted(r)

\* an update request, and a request that got its 201
IsUpdate(r) == req[r] # None /\ is_update(r)
Created(r) == resp[r] # None /\ resp[r].status = 201

\* C16: an update never creates a key: it fetches the credentials of the stored
\* document at most once, and its 201 carries the api_key and app_id of that
\* document. Only an onboarding creates a key: a 201 of an onboarding follows
\* exactly one create call, whose key is named product-environment-app_name, and
\* carries an app_id that no stored document and no other onboarding has.
C16_UpdateReusesKey ==
  \A r \in Requests :
    /\ IsUpdate(r) =>
         /\ hist[r].key_creates = 0
         /\ hist[r].key_fetches <= 1
         /\ \A k \in apiKeys : k.id # r
         /\ Created(r) =>
              /\ hist[r].key_fetches = 1
              /\ appColl[req[r].app_name] # <<>>
              /\ resp[r].api_key = Head(appColl[req[r].app_name]).api_key
              /\ resp[r].app_id = Head(appColl[req[r].app_name]).app_id
              /\ loc[r].api_key_id = Head(appColl[req[r].app_name]).api_key_id
    /\ (req[r] # None /\ ~is_update(r)) =>
         /\ hist[r].key_fetches = 0
         /\ hist[r].key_creates <= 1
         /\ Created(r) =>
              /\ hist[r].key_creates = 1
              /\ [name |-> api_key_name(req[r].app_name), id |-> loc[r].api_key_id]
                   \in apiKeys
              /\ resp[r].api_key = loc[r].api_key
              /\ resp[r].app_id \notin {StoredId(a) : a \in Apps}
              /\ \A q \in Requests \ {r} :
                   (Created(q) /\ ~is_update(q)) => resp[q].app_id # resp[r].app_id

\* C16 witness: an onboarding got its 201 with a new key, and a later update of the
\* app got its 201 with the credentials of that onboarding and no create call
C16_Witness ==
  \E r, q \in Requests :
    /\ IsUpdate(r) /\ Created(r)
    /\ resp[r].api_key = Head(appColl[req[r].app_name]).api_key
    /\ hist[r].key_creates = 0 /\ hist[r].key_fetches = 1
    /\ req[q] # None /\ ~is_update(q) /\ Created(q)
    /\ hist[q].key_creates = 1
    /\ resp[r].api_key = resp[q].api_key /\ resp[r].app_id = resp[q].app_id

\* C17: calling update_api_key_with_usage_plan twice in sequence with one key id
\* makes at most one associate call in total; a call that finds the key listed
\* returns Ok without an associate call, so the second call never associates and
\* is never refused by the gateway for a key that is already in the plan; a call
\* that returned Ok leaves the key in the plan, and a second call can fail only
\* by a failing lookup or list call.
C17_AssociationIdempotent ==
  \A r \in Requests :
    /\ hist[r].associates <= 1
    /\ (pc[r] = "associate") =>
         (loc[r].api_key_id \notin planKeys /\ hist[r].plan_calls = 1)
    /\ Rejected(r, "associate failed") => resp[r].message.cause = "gateway"
    /\ (pc[r] = "spawn") => loc[r].api_key_id \in planKeys
    /\ (hist[r].plan_calls = 2 /\ resp[r] # None) =>
         hist[r].failed_call \in {[tag |-> "check_usage_plan_exists"],
                                  [tag |-> "check_usage_plan_with_api_key"]}

\* C17 witness: two calls returned Ok, the first one associated the key, the
\* second one listed the keys and made no associate call
C17_Witness ==
  \E r \in Requests :
    /\ pc[r] = "spawn"
    /\ hist[r].plan_calls = 2 /\ hist[r].key_lists = 2
    /\ hist[r].associates = 1
    /\ loc[r].api_key_id \in planKeys

\* the call of request r that failed during credential provisioning, if any
FailedCall(r, name) == hist[r].failed_call = [tag |-> name]

\* C18: when the lookup of the usage plan fails, the request ends with a 500 at
\* once: the plan's keys are not listed, no associate call is made, no background
\* task is spawned and no 201 is sent.
C18_LookupFailureIsFatal ==
  \A r \in Requests :
    FailedCall(r, "check_usage_plan_exists") =>
      /\ pc[r] = "done"
      /\ Rejected(r, "usage plan lookup failed")
      /\ resp[r].status = 500
      /\ hist[r].plan_calls = 1
      /\ hist[r].key_lists = 0
      /\ hist[r].associates = 0
      /\ ~hist[r].spawned /\ bg[r] = "none"

\* C18 witness: an onboarding created its key and then failed at the lookup
C18_Witness ==
  \E r \in Requests :
    /\ FailedCall(r, "check_usage_plan_exists")
    /\ Rejected(r, "usage plan lookup failed")
    /\ hist[r].key_creates = 1
    /\ hist[r].key_lists = 0 /\ hist[r].associates = 0

\* the page at which the loop over the listing of r must stop: the first page
\* whose list call fails or that holds the key, or else the last page
StopPage(r) ==
  LET pages == run[r].pages
      ends == {i \in DOMAIN pages :
                 \/ i \in run[r].failing
                 \/ loc[r].api_key_id \in pages[i]
                 \/ i = Len(pages)}
  IN CHOOSE i \in ends : \A j \in ends : i <= j

\* C19: check_usage_plan_with_api_key requests the pages in order and stops at the
\* first page that holds the key (true, no further page requested) or at a page
\* without a continuation token (false); it returns true iff the key is in some
\* page when no list call fails, makes at most one call per page of a finite
\* listing, and a failed list call yields the 500 error, never false.
C19_PaginatedLookup ==
  \A r \in Requests :
    (pc[r] = "returned") =>
      LET pages == run[r].pages
          key == loc[r].api_key_id
          out == vres[r]
      IN /\ out.calls = StopPage(r)
         /\ out.calls <= Len(pages)
         /\ (StopPage(r) \in run[r].failing) => (~out.ok /\ out.status = 500)
         /\ (StopPage(r) \notin run[r].failing) =>
              (out.ok /\ (out.value <=> key \in pages[StopPage(r)]))
         /\ (out.ok /\ ~out.value) =>
              (out.calls = Len(pages) /\ \A i \in DOMAIN pages : key \notin pages[i])
         /\ (run[r].failing = {}) =>
              (out.ok /\ (out.value <=> \E i \in DOMAIN pages : key \in pages[i]))

\* C19 witness: the key is on the second of three pages only; the lookup returned
\* true after two list calls although the list call of the third page would fail
C19_Witness ==
  \E r \in Requests :
    /\ pc[r] = "returned"
    /\ Len(run[r].pages) = 3
    /\ loc[r].api_key_id \notin run[r].pages[1]
    /\ loc[r].api_key_id \in run[r].pages[2]
    /\ run[r].failing = {3}
    /\ vres[r].ok /\ vres[r].value /\ vres[r].calls = 2

\* request r ended in an error response and started no background work
EndedInError(r) ==
  /\ pc[r] = "done"
  /\ resp[r] # None /\ resp[r].status \in {404, 500}
  /\ ~hist[r].spawned /\ bg[r] = "none"

\* C20 as stated: a request whose credential provisioning failed got an error
\* response, started no background work and persisted nothing.
C20_NothingPersisted ==
  \A r \in Requests :
    (hist[r].failed_call # None) =>
      /\ EndedInError(r)
      /\ hist[r].app_writes = 0
      /\ UiDocsOf(r) = {}
      /\ IdDocsOf(r) = {}

\* C20: a request whose credential provisioning failed (create_key error, stored
\* credentials missing, usage-plan lookup, list or associate error) got an error
\* response and started no background work; it wrote no Application document, no
\* ID document under its reference id and no notification. What it leaves behind
\* is its UI summary document, after a failed usage-plan lookup possibly one
\* task/reference record in the ID collection, and the key an onboarding created
\* before the failure.
C20_ProvisioningFailureIsFatal ==
  \A r \in Requests :
    (hist[r].failed_call # None) =>
      /\ EndedInError(r)
      /\ hist[r].app_writes = 0
      /\ MessagesOf(r) = {}
      /\ ~hist[r].audit
      /\ MarkerOf(r) \notin idColl
      /\ Cardinality(UiDocsOf(r)) = 1
      /\ IdDocsOf(r) \subseteq {IdDocument(req[r].app_name, create_ref_id(r), r)}
      /\ (IdDocsOf(r) # {}) => FailedCall(r, "check_usage_plan_exists")
      /\ (hist[r].key_creates = 1 /\ ~FailedCall(r, "create_api_key")) =>
           [name |-> api_key_name(req[r].app_name), id |-> r] \in apiKeys

\* C20 witness: an onboarding created its key, failed at the usage-plan lookup and
\* left its UI summary document, a task/reference record and the key behind
C20_Witness ==
  \E r \in Requests :
    /\ FailedCall(r, "check_usage_plan_exists")
    /\ EndedInError(r)
    /\ hist[r].key_creates = 1
    /\ [name |-> api_key_name(req[r].app_name), id |-> r] \in apiKeys
    /\ UiDocsOf(r) # {}
    /\ IdDocsOf(r) = {IdDocument(req[r].app_name, create_ref_id(r), r)}
    /\ hist[r].app_writes = 0

\* C21: after any interleaving of onboarding and update requests, two concurrent
\* requests for one app_name that both passed the existence check included, the
\* application collection holds no document or exactly one document per app_name.
C21_AtMostOneDocument ==
  \A a \in Apps : Len(appColl[a]) <= 1

\* the datastore entries of request r under a supported kind, by kind and position,
\* and those among them whose db_type process_database has no branch for
DbEntries(r) ==
  {e \in (DOMAIN req[r].app_datasource.datastore \cap data_store) \X (1..MaxRes) :
     e[2] \in DOMAIN req[r].app_datasource.datastore[e[1]]}

DbEntry(r, e) == req[r].app_datasource.datastore[e[1]][e[2]]

UnsupportedDbEntries(r) ==
  {e \in DbEntries(r) :
     DbEntry(r, e).db_type \notin relational_db_types \cup search_db_types}

C23_ErrorsCarryReferenceId ==
  \A r \in Requests :
    (resp[r] # None /\ resp[r].status # 201) =>
      /\ "reference_id" \in DOMAIN resp[r]
      /\ \E d \in idColl : d.reference_id = resp[r].reference_id

\* the update of request r succeeded in this step
UpdateSucceeds(r) ==
  /\ bg[r] = "update_app"
  /\ hist'[r].app_writes = hist[r].app_writes + 1

\* C24: a successful update leaves app_name, app_id, api_key and api_key_id of the
\* persisted Application document as they were before the update and replaces the
\* topology and the status by values derived from the update request; no other
\* document of the collection, of this or of another app_name, is modified.
C24_UpdateKeepsIdentity ==
  [][\A r \in Requests :
       UpdateSucceeds(r) =>
         LET app == req[r].app_name
             before == Head(appColl[app])
             after == Head(appColl'[app])
         IN /\ appColl[app] # <<>>
            /\ after.app_name = before.app_name
            /\ after.app_id = before.app_id
            /\ after.api_key = before.api_key
            /\ after.api_key_id = before.api_key_id
            /\ after.app_datasource = set_app_datasource(req[r].app_datasource)
            /\ after.onboarding_status = onboarding_status(loc[r].has_datasource_changed)
            /\ Tail(appColl'[app]) = Tail(appColl[app])
            /\ \A a \in Apps \ {app} : appColl'[a] = appColl[a]
  ]_vars

\* the causes of a failure response, by the message of the response
ConflictTags == {"doesn't exist", "already exists"}
ValidationTags == {"unsupported data sources"}
ConnectivityTags == {"connectivity check failed"}
PersistenceTags == {"existence check failed", "ui summary insert failed"}
VerifierErrorTags == {"no_databases", "aws_auth"}

Failed(r) == resp[r] # None /\ resp[r].status # 201

BadTables(r) == {j \in DOMAIN run[r].db.tables : run[r].outcomes[j] # "found"}

\* C26: a database probe for an entry with a supported db_type returns no error iff
\* the client is built and the existence query of every declared table counts more
\* than 0; otherwise it returns one error: for the client build failure, with no
\* query sent, or for the first table in declared order whose query counts 0 or
\* fails, with no query for any table after it.
C26_DatabaseProbe ==
  \A r \in Requests :
    (pc[r] = "returned"
       /\ run[r].db.db_type \in relational_db_types \cup search_db_types) =>
      LET db == run[r].db
          out == vres[r]
      IN /\ out.builds = 1
         /\ (out.result = None) <=> (run[r].client_ok /\ BadTables(r) = {})
         /\ (out.result = None) => out.queries = Len(db.tables)
         /\ ~run[r].client_ok =>
              /\ out.result = DbError("failed to connect", db, None)
              /\ out.queries = 0
         /\ (run[r].client_ok /\ BadTables(r) # {}) =>
              LET first == CHOOSE j \in BadTables(r) : \A k \in BadTables(r) : j <= k
              IN /\ out.result.table = db.tables[first].name
                 /\ (run[r].outcomes[first] = "zero") <=>
                      out.result.error \in {"table does not exist", "index does not exist"}
                 /\ (run[r].outcomes[first] = "error") <=>
                      out.result.error = "failed to check if table exists"
                 /\ out.queries = first

\* C26 witness: of three tables the second counts 0 and the third would fail; the
\* probe reports the second table after two queries
C26_Witness ==
  \E r \in Requests :
    /\ pc[r] = "returned"
    /\ run[r].db.db_type = "postgres" /\ run[r].client_ok
    /\ Len(run[r].db.tables) = 3
    /\ run[r].outcomes = <<"found", "zero", "error">>
    /\ vres[r].result = DbError("table does not exist", run[r].db, 2)
    /\ vres[r].queries = 2

\* the position of the last c in s, 0 if there is none, and of the first one,
\* Len(s) + 1 if there is none
LastIndexOf(s, c) ==
  IF contains(s, c) THEN CHOOSE i \in DOMAIN s : s[i] = c /\ \A j \in DOMAIN s : s[j] = c => j <= i
  ELSE 0

FirstIndexOf(s, c) ==
  IF contains(s, c) THEN CHOOSE i \in DOMAIN s : s[i] = c /\ \A j \in DOMAIN s : s[j] = c => i <= j
  ELSE Len(s) + 1

\* the extension of a key: what follows its last '.', nothing if it has no '.'
ExtensionOf(key) ==
  IF contains(key, ".") THEN SubSeq(key, LastIndexOf(key, ".") + 1, Len(key)) ELSE <<>>

\* C27: for an object key without '*', once the bucket is confirmed reachable: if
\* the extension of the key is non-empty and not in the allow-list the probe returns
\* an unsupported-extension error without an object-exists call; otherwise it
\* returns no error iff the object-exists call succeeds.
C27_PlainKeyProbe ==
  \A r \in Requests :
    (pc[r] = "returned" /\ run[r].bucket_ok /\ ~contains(run[r].object, "*")) =>
      LET extension == ExtensionOf(run[r].object)
      IN IF extension # <<>> /\ extension \notin supported_file_types
           THEN /\ vres[r].result # None
                /\ vres[r].result.error = "unsupported file extension"
                /\ vres[r].gets = 0
           ELSE /\ (vres[r].result = None) <=> run[r].get_ok
                /\ vres[r].gets = 1

\* the prefix of a wildcard key, and its extension: what follows the '*', without
\* the dots it starts with
PrefixOf(key) == SubSeq(key, 1, FirstIndexOf(key, "*") - 1)

WildcardExtensionOf(key) ==
  LET rest == SubSeq(key, FirstIndexOf(key, "*") + 1, Len(key))
      dots == {n \in 0..Len(rest) : \A i \in 1..n : rest[i] = "."}
      lead == CHOOSE n \in dots : \A m \in dots : m <= n
  IN SubSeq(rest, lead + 1, Len(rest))

\* C28: for an object key <prefix>*<extension>, once the bucket is confirmed
\* reachable: a non-empty prefix is listed once, and an empty or failed listing is
\* an error; then a non-empty extension outside the allow-list is an
\* unsupported-extension error; otherwise the probe succeeds. No object-exists call
\* is made, and with an empty prefix and an empty extension no call at all.
C28_WildcardKeyProbe ==
  \A r \in Requests :
    (pc[r] = "returned" /\ run[r].bucket_ok /\ contains(run[r].object, "*")) =>
      LET prefix == PrefixOf(run[r].object)
          extension == WildcardExtensionOf(run[r].object)
          out == vres[r]
      IN /\ out.gets = 0
         /\ out.lists = (IF prefix # <<>> THEN 1 ELSE 0)
         /\ IF prefix # <<>> /\ run[r].listing = "empty"
              THEN out.result # None /\ out.result.error = "path does not exist"
            ELSE IF prefix # <<>> /\ run[r].listing = "error"
              THEN out.result # None /\ out.result.error = "failed to list objects"
            ELSE IF extension # <<>> /\ extension \notin supported_file_types
              THEN out.result # None /\ out.result.error = "unsupported file extension"
            ELSE out.result = None
         /\ (prefix = <<>> /\ extension = <<>>) => (out.result = None /\ out.lists = 0)

\* C28 witness: the key a*.p is listed once and accepted without the object-exists
\* call, which would have failed
C28_Witness ==
  \E r \in Requests :
    /\ pc[r] = "returned" /\ run[r].bucket_ok /\ ~run[r].get_ok
    /\ run[r].object = <<"a", "*", ".", "p">>
    /\ run[r].listing = "some"
    /\ vres[r] = [result |-> None, lists |-> 1, gets |-> 0]

\* a store or producer call of the background task of r returned an error
CallErrors == {"insert failed", "fetch failed", "update failed", "send failed"}
BgCallFailed(r) == \E i \in DOMAIN BgLog(r) : BgLog(r)[i].error \in CallErrors

\* the background task of r is at its end: the document written, the notification
\* published where one is due, the success audit record emitted
ReachedDone(r) ==
  /\ bg[r] = "done"
  /\ hist[r].app_writes = 1
  /\ hist[r].audit
  /\ (~is_update(r) \/ loc[r].has_datasource_changed) =>
       \E i \in DOMAIN kafka : kafka[i].task_id = r

\* C29: if no collaborator call fails, every request answered 201 eventually
\* reaches Done under fair scheduling: the Application document created or updated,
\* the notification published (for an update, when the topology changed), and the
\* success audit record emitted.
C29_AcceptedReachesDone ==
  \A r \in Requests : ([]~BgCallFailed(r)) => (Created(r) ~> ReachedDone(r))

\* the background task of r writes an Application document in this step, and the
\* document it writes
WritesApp(r) == hist'[r].app_writes = hist[r].app_writes + 1

WrittenApp(r) ==
  LET docs == appColl'[req[r].app_name]
  IN IF is_update(r) THEN Head(docs) ELSE docs[Len(docs)]

\* the submitted topology of the update r differs from the one its diff read
TopologyChanged(r) == ~AppDataSourceEq(hist[r].diffed, req[r].app_datasource)

\* C30: every Application document written has onboarding_status in_progress or
\* complete: in_progress exactly when it is written by an onboarding or by an update
\* whose topology changed, complete exactly when it is written by an update whose
\* topology is unchanged, whatever the status was before.
C30_StatusOfWrittenDocument ==
  [][\A r \in Requests :
       WritesApp(r) =>
         /\ WrittenApp(r).onboarding_status \in {"in_progress", "complete"}
         /\ WrittenApp(r).onboarding_status = "in_progress"
              <=> (~is_update(r) \/ TopologyChanged(r))
         /\ WrittenApp(r).onboarding_status = "complete"
              <=> (is_update(r) /\ ~TopologyChanged(r))]_vars

\* C30 witness: an onboarding wrote the document in_progress, and a later update
\* with the same topology has set it complete
C30_Witness ==
  \E q \in Requests, r \in Requests :
    /\ bg[q] = "done" /\ ~is_update(q)
    /\ bg[r] = "done" /\ is_update(r)
    /\ req[q].app_name = req[r].app_name
    /\ hist[r].diffed = set_app_datasource(req[q].app_datasource)
    /\ ~TopologyChanged(r)
    /\ hist[r].app_writes = 1
    /\ Head(appColl[req[r].app_name]).onboarding_status = "complete"

\* C31: round trip: once the document of an onboarding of topology T is stored, an
\* update that submits the same T is diffed as unchanged, (false, None), for every
\* T, also when columns or sample_rows of a table are absent.
C31_SameTopologyIsUnchanged ==
  \A r \in Requests :
    (/\ bg[r] = "update_app"
     /\ hist[r].diffed = set_app_datasource(req[r].app_datasource)) =>
      /\ ~loc[r].has_datasource_changed
      /\ loc[r].existing_app_datasource = None

\* C32: the previous topology carried by an update notification is the topology the
\* stored Application document held immediately before the write of that request,
\* also when two updates of one app run their background phases concurrently.
C32_PreviousIsWhatWasReplaced ==
  \A i \in DOMAIN kafka :
    kafka[i].previous # None =>
      kafka[i].previous = hist[kafka[i].task_id].replaced

\* C33: across any sequence of onboarding attempts for one app_name, failed ones
\* included, at most one API key is created for that app_name.
C33_OneKeyPerApp ==
  \A a \in Apps : Cardinality({k \in apiKeys : k.name = api_key_name(a)}) <= 1

\* what update_app returned to the background task of r in this step
UpdateAppReturns(r) == bg[r] = "update_app" /\ bg'[r] # bg[r]

UpdateAppResult(r) == hist'[r].bg_log[Len(hist'[r].bg_log)].error

\* C34: update_app returns NotFound iff no Application document of the request's
\* app_name exists; when one exists and the store call succeeds it returns Ok, also
\* when the written values equal the stored ones and the store reports zero
\* modified documents.
C34_NotFoundOnlyWhenAbsent ==
  [][\A r \in Requests :
       UpdateAppReturns(r) =>
         /\ UpdateAppResult(r) = "no document modified"
              => appColl[req[r].app_name] = <<>>
         /\ (appColl[req[r].app_name] # <<>> /\ UpdateAppResult(r) # "update failed")
              => UpdateAppResult(r) = "none"]_vars

\* the request of r is past the validation of its kinds
PassedValidation(r) == Received(r) /\ pc[r] \in {"verify", "probing", "credentials"}

\* the checker of the family is running on a kind of r
Dispatched(r, family, kind) ==
  run[r].active /\ run[r].family = family /\ run[r].kind = kind

\* C35 as claimed: validation is per family: a kind declared under filestore passes
\* only if it is in file_store, one declared under datastore only if it is in
\* data_store; a kind supported for the other family only is reported as
\* unsupported and never dispatched to a checker.
C35_PerFamilyValidation ==
  \A r \in Requests :
    /\ PassedValidation(r) =>
         /\ DOMAIN req[r].app_datasource.filestore \subseteq file_store
         /\ DOMAIN req[r].app_datasource.datastore \subseteq data_store
    /\ \A k \in AllKinds :
         /\ Dispatched(r, "filestore", k) => k \in file_store
         /\ Dispatched(r, "datastore", k) => k \in data_store

\* C35, amended: validation is over both families at once: the request passes iff
\* every declared kind is in file_store or data_store, whichever family declares
\* it, and is rejected with exactly the kinds in neither list otherwise; a kind
\* that passed is dispatched to the checker of the family that declares it.
C35_MergedValidation ==
  \A r \in Requests :
    /\ PassedValidation(r) => DeclaredKinds(r) \subseteq file_store \cup data_store
    /\ Rejected(r, "unsupported data sources") =>
         /\ Range(resp[r].errors) = DeclaredKinds(r) \ (file_store \cup data_store)
         /\ resp[r].errors # <<>>
    /\ \A k \in AllKinds :
         /\ Dispatched(r, "filestore", k) => k \in DOMAIN req[r].app_datasource.filestore
         /\ Dispatched(r, "datastore", k) => k \in DOMAIN req[r].app_datasource.datastore

\* C35 witness: a kind of the data_store list only, declared under filestore, has
\* passed validation and is with the filestore checker
C35_Witness ==
  \E r \in Requests, k \in data_store \ file_store :
    /\ PassedValidation(r)
    /\ k \in DOMAIN req[r].app_datasource.filestore
    /\ Dispatched(r, "filestore", k)
    /\ hist[r].probes > 0

\* the resources declared by r, and those under the kinds not yet handed to a
\* checker or whose checker returned the structured error
DeclaredResources(r) ==
  LET topo == req[r].app_datasource
      Count(m) == Cardinality({<<k, i>> \in AllKinds \X (1..MaxRes) :
                                 k \in DOMAIN m /\ i \in DOMAIN m[k]})
  IN Count(topo.filestore) + Count(topo.datastore)

UnverifiedResources(r) ==
  LET topo == req[r].app_datasource
  IN Cardinality({<<j, i>> \in (DOMAIN loc[r].kinds) \X (1..MaxRes) :
                    i \in DOMAIN topo[loc[r].kinds[j].family][loc[r].kinds[j].key]})

\* C36: when a per-kind verifier call returns a structured error (the credential
\* context of a datastore kind cannot be built), check_datasource_connectivity
\* returns that error at once: the kinds not yet verified are not probed, and the
\* failure strings collected from earlier kinds are not in the response.
C36_StructuredErrorReturnsAtOnce ==
  \A r \in Requests :
    Rejected(r, "aws_auth") =>
      /\ pc[r] = "done" /\ ~run[r].active
      /\ resp[r] = ErrorResponse(500, [tag |-> "aws_auth"], <<>>)
      /\ loc[r].kinds # <<>> /\ Head(loc[r].kinds).family = "datastore"
      /\ hist[r].probes = DeclaredResources(r) - UnverifiedResources(r)

\* C36 witness: a probe of an earlier kind had failed and a later kind was still to
\* be verified when the credential context of a datastore kind could not be built
C36_Witness ==
  \E r \in Requests :
    /\ Rejected(r, "aws_auth")
    /\ loc[r].connectivity_errors # <<>>
    /\ Len(loc[r].kinds) >= 2
    /\ hist[r].probes > 0
    /\ hist[r].probes < DeclaredResources(r) - 1

\* the associate call of r failed: the gateway was out of reach ("gateway") or it
\* refused a key that is already in the plan ("conflict")
AssociateRefused(r, cause) ==
  Rejected(r, "associate failed") /\ resp[r].message.cause = cause

\* C37: under any interleaving of two requests that provision the same api_key_id
\* against the usage plan, at most one associate call is issued (unless the gateway
\* failed one), and neither request fails because the key is already associated.
C37_ConcurrentAssociationIsIdempotent ==
  \A q \in Requests, r \in Requests :
    (q # r /\ loc[q].api_key_id = loc[r].api_key_id) =>
      /\ (\A p \in {q, r} : ~AssociateRefused(p, "gateway")) =>
           hist[q].associates + hist[r].associates <= 1
      /\ ~AssociateRefused(r, "conflict")

\* C38: for an object key without '*' and without '.', the extension is empty and
\* the extension check is skipped: the result of the probe is that of the
\* object-exists call alone.
C38_NoDotKeySkipsExtensionCheck ==
  \A r \in Requests :
    (/\ pc[r] = "returned" /\ run[r].bucket_ok
     /\ ~contains(run[r].object, "*") /\ ~contains(run[r].object, ".")) =>
      /\ vres[r].gets = 1
      /\ vres[r].result = (IF run[r].get_ok THEN None
                           ELSE UrlError("failed to access", run[r].object, None))

====
